---- MODULE Spec2Model ----
(***************************************************************************)
(* AmbientSounds: the audio engine (src/src/AudioController.js) as a state *)
(* machine.  Every async method call is a record in `calls' with its own   *)
(* promise (state + reaction list); code between two awaits is one atomic  *)
(* step.  Settled promises hand their reactions to the microtask queue     *)
(* `mq', which runs first-in first-out; fetch and decode completions are   *)
(* macrotasks and only happen when the microtask queue is empty.           *)
(* Volumes are hundredths (75 is 0.75).                                    *)
(* The settings store (src/src/SettingsController.js) is a second state    *)
(* machine over the record this.settings and the item kept in localStorage;*)
(* its numbers are hundredths too (a session count of 1 is 100).           *)
(* The colour cycler (BackgroundController) is a third state machine over  *)
(* the controller's fields, the browser's clock and its pending timers;    *)
(* the auto-hiding controls and the error banner (UIController) are a      *)
(* fourth, over the same clock and timers.                                 *)
(***************************************************************************)
EXTENDS Integers, Sequences, FiniteSets, TLC

\* ---------------------------------------------------------------- bounds
NumSounds ==
  2
MaxUserCalls ==
  2
MaxSyncOps ==
  2
MaxFailures ==
  2
\* the calls of the specification that is checked for liveness (resume only
\* beyond MaxUserCalls)
MaxLiveCalls ==
  3
\* the calls of the specification of start-up: init, preloadAllSounds, play
MaxStartupCalls ==
  3
\* constructions of, and calls on, the settings store
MaxStoreOps ==
  3
\* colour cycler: palette entries, calls, and clock steps
MaxPalette ==
  3
MaxBgOps ==
  4
MaxBgTicks ==
  6
\* controls and banner: events and calls, and clock steps
MaxUiOps ==
  4
MaxUiTicks ==
  8
\* sound selector: events and calls
MaxDdOps ==
  6
\* play/pause control: clicks and key presses
MaxActivations ==
  2

\* ------------------------------------------------------------- constants
DefaultVolume ==
  75
VolumeMax ==
  100
VolumeMin ==
  0

CatalogNames ==
  <<"Rain", "Ocean Waves", "Forest", "White Noise">>
\* the catalog, cut to its first NumSounds entries
soundSources ==
  { CatalogNames[i] : i \in 1..NumSounds }
\* entry i of the catalog, in catalog order
SourceAt(i) ==
  CatalogNames[i]
Null ==
  "null"
\* a name that is not in the catalog
UnknownName ==
  "Thunder"
Names ==
  soundSources \cup {UnknownName}
VolumeInputs ==
  {-50, 0, 50, 150}

VARIABLES
  audioContext,      \* 0 (null) or the id of the constructed AudioContext
  gainNode,          \* [exists, value]
  soundBuffers,      \* name -> 0 (absent) or buffer id (= id of the loadSound call that decoded it)
  currentSourceNode, \* 0 (null) or index into nodes
  isPlaying,
  selectedSound,
  isLoading,
  preloadPromise,    \* 0 (null) or index into batches
  volume,
  nodes,             \* every AudioBufferSourceNode created so far
  calls,             \* every async call made so far
  batches,           \* every Promise.all made by preloadAllSounds
  mq,                \* microtask queue
  ctxCount,          \* number of AudioContext constructions that succeeded
  gainCount,         \* number of createGain calls that succeeded
  budget,            \* [user, sync, fail]: calls and failures used up
  ev,                \* the last step taken
  app,               \* main.js: audioInitialized, the play button, the error shown
  settings,          \* SettingsController: this.settings, key -> value
  localStorage,      \* the item stored under STORAGE_KEY
  instances,         \* number of SettingsController objects constructed
  setItemCalls,      \* number of localStorage.setItem calls made
  storeOps,          \* constructions and calls used up
  sev,               \* the last step of the settings store
  now,               \* the browser: Date.now()
  timers,            \* the browser: pending setTimeout callbacks [id, due, cb]
  timerSeq,          \* the browser: the last timer handle handed out
  background,        \* BackgroundController: its fields and the element's colour
  bgHist,            \* what was asked of the cycler, and its last two cycle paints
  bgOps,             \* calls of the cycler used up
  bev,               \* the last step of the cycler
  ui,                \* UIController: the controls, their timer, the banner
  uiHist,            \* focus, hover, and the times of the last events
  uiOps,             \* events and calls of the controls used up
  uev,               \* the last step of the controls
  dropdown,          \* UIController: the custom sound selector
  ddOps,             \* events and calls of the selector used up
  dev                \* the last step of the selector

\* the variables of the settings store
storeVars ==
  <<settings, localStorage, instances, setItemCalls, storeOps, sev>>

\* the variables of the colour cycler, and of the controls and the banner
bgVars ==
  <<background, bgHist, bgOps, bev>>

uiVars ==
  <<ui, uiHist, uiOps, uev>>

ddVars ==
  <<dropdown, ddOps, dev>>

\* the variables of the page: the browser's timers and what runs on them
pageVars ==
  <<now, timers, timerSeq, background, bgHist, bgOps, bev,
    ui, uiHist, uiOps, uev, dropdown, ddOps, dev>>

\* the variables of the audio engine
audioVars ==
  <<audioContext, gainNode, soundBuffers, currentSourceNode, isPlaying,
    selectedSound, isLoading, preloadPromise, volume, nodes, calls, batches,
    mq, ctxCount, gainCount, budget, ev, app>>

vars ==
  <<audioContext, gainNode, soundBuffers, currentSourceNode, isPlaying,
    selectedSound, isLoading, preloadPromise, volume, nodes, calls, batches,
    mq, ctxCount, gainCount, budget, ev, app,
    settings, localStorage, instances, setItemCalls, storeOps, sev,
    now, timers, timerSeq, background, bgHist, bgOps, bev,
    ui, uiHist, uiOps, uev, dropdown, ddOps, dev>>

\* the engine and its pending work as one record, so that a method is an
\* operator from state to state
State ==
  [audioContext |-> audioContext, gainNode |-> gainNode,
   soundBuffers |-> soundBuffers, currentSourceNode |-> currentSourceNode,
   isPlaying |-> isPlaying, selectedSound |-> selectedSound,
   isLoading |-> isLoading, preloadPromise |-> preloadPromise,
   volume |-> volume, nodes |-> nodes, calls |-> calls, batches |-> batches,
   mq |-> mq, ctxCount |-> ctxCount, gainCount |-> gainCount, app |-> app]

Commit(s) ==
  /\ audioContext' = s.audioContext
  /\ gainNode' = s.gainNode
  /\ soundBuffers' = s.soundBuffers
  /\ currentSourceNode' = s.currentSourceNode
  /\ isPlaying' = s.isPlaying
  /\ selectedSound' = s.selectedSound
  /\ isLoading' = s.isLoading
  /\ preloadPromise' = s.preloadPromise
  /\ volume' = s.volume
  /\ nodes' = s.nodes
  /\ calls' = s.calls
  /\ batches' = s.batches
  /\ mq' = s.mq
  /\ ctxCount' = s.ctxCount
  /\ gainCount' = s.gainCount
  /\ app' = s.app
  /\ UNCHANGED <<storeVars, pageVars>>

Max(a, b) ==
  IF a >= b THEN a ELSE b
Min(a, b) ==
  IF a <= b THEN a ELSE b

\* F applied to the value of e, with e evaluated once.  Every method below
\* takes the engine state this way, so that a chain of calls evaluates each
\* intermediate state a single time.
Once(e, F(_)) ==
  CHOOSE r \in { F(x) : x \in {e} } : TRUE

\* --------------------------------------------------- promises, microtasks
CallTask(id) ==
  [k |-> "call", id |-> id]
BatchTask(b) ==
  [k |-> "batch", id |-> b]

RECURSIVE TasksOf(_)
TasksOf(ids) ==
  IF ids = <<>> THEN <<>> ELSE <<CallTask(Head(ids))>> \o TasksOf(Tail(ids))

NewCall(fn, arg) ==
  [fn |-> fn, arg |-> arg, pc |-> "start", st |-> "pending", waiters |-> <<>>,
   child |-> 0, ab |-> 0, batch |-> 0, result |-> 0,
   at |-> [inflight |-> {}, pending |-> {}, playing |-> FALSE, cur |-> 0,
           sel |-> Null, via |-> fn]]

AddCall(st, fn, arg) ==
  Once(st, LAMBDA s :
    [s EXCEPT !.calls = Append(@, NewCall(fn, arg))])

\* mutant of CaughtOutcome: the handler rethrows
CaughtRethrown(outcome) ==
  outcome

\* the .catch handler preloadAllSounds puts on every load: logs, returns null
CaughtOutcome(outcome) ==
  "fulfilled"

\* the promise of call id settles: its reactions are queued in registration
\* order; a load that belongs to a Promise.all counts down that batch, and the
\* last one queues the batch's own resolution
Settle(st, id, outcome, result) ==
  Once(st, LAMBDA s :
    LET c == s.calls[id]
        b == c.batch
        s1 == [s EXCEPT !.calls[id].st = outcome, !.calls[id].pc = "done",
                        !.calls[id].result = result, !.calls[id].waiters = <<>>]
        s2 == IF b = 0 THEN s1
              ELSE [s1 EXCEPT !.batches[b].remaining = @ - 1,
                              !.batches[b].failed =
                                 @ \/ CaughtOutcome(outcome) = "rejected",
                              !.batches[b].loaded =
                                 IF outcome = "fulfilled" THEN @ \cup {c.arg} ELSE @]
        q1 == IF b # 0 /\ s2.batches[b].remaining = 0
                THEN Append(s2.mq, BatchTask(b)) ELSE s2.mq
    IN [s2 EXCEPT !.mq = q1 \o TasksOf(c.waiters)])

\* call id suspends at `await <promise of call target>' with its pc set to pc
Await(st, id, target, pc) ==
  Once(st, LAMBDA s :
    LET s1 == [s EXCEPT !.calls[id].pc = pc, !.calls[id].child = target,
                        !.calls[id].ab = 0]
    IN IF s1.calls[target].st # "pending"
         THEN [s1 EXCEPT !.mq = Append(@, CallTask(id))]
         ELSE [s1 EXCEPT !.calls[target].waiters = Append(@, id)])

\* call id suspends at `await <Promise.all b>'
AwaitBatch(st, id, b, pc) ==
  Once(st, LAMBDA s :
    LET s1 == [s EXCEPT !.calls[id].pc = pc, !.calls[id].ab = b,
                        !.calls[id].child = 0]
    IN IF s1.batches[b].st # "pending"
         THEN [s1 EXCEPT !.mq = Append(@, CallTask(id))]
         ELSE [s1 EXCEPT !.batches[b].waiters = Append(@, id)])


\* ------------------------------------------------------- AudioController
\* what the platform may do to one init(): construct the context or throw,
\* create the gain stage or throw
EnvOk ==
  [ctxOk |-> TRUE, gainOk |-> TRUE]
EnvCtxFails ==
  [ctxOk |-> FALSE, gainOk |-> TRUE]
EnvGainFails ==
  [ctxOk |-> TRUE, gainOk |-> FALSE]

\* the Promise.all made by preloadAllSounds call `by'
NewBatch(by) ==
  [remaining |-> NumSounds, st |-> "pending", waiters |-> <<>>,
   failed |-> FALSE, loaded |-> {}, by |-> by]

NewNode(buffer, by) ==
  [buffer |-> buffer, loop |-> FALSE, connected |-> FALSE, started |-> FALSE,
   stops |-> 0, disconnects |-> 0, by |-> by]

\* this.soundBuffers.get(name): undefined (0) for a name never stored
BufferOf(s, name) ==
  IF name \in DOMAIN s.soundBuffers THEN s.soundBuffers[name] ELSE 0

RECURSIVE init(_, _), preloadAllSounds(_, _), loadSound(_, _, _, _), LoadAll(_, _, _, _)

\* mutant of loadSound_body: the cache is not consulted
loadSound_body_no_cache(st, id) ==
  Once(st, LAMBDA s :
    [s EXCEPT !.isLoading = TRUE, !.calls[id].pc = "fetch"])

\* loadSound from the cache check on (lines 62-69), up to `await fetch'
loadSound_body(st, id) ==
  Once(st, LAMBDA s :
    LET name == s.calls[id].arg
    IN IF BufferOf(s, name) # 0
         THEN Settle(s, id, "fulfilled", BufferOf(s, name))
         ELSE [s EXCEPT !.isLoading = TRUE, !.calls[id].pc = "fetch"])

\* loadSound(soundName, soundUrl), as load number b's member (b = 0: on its own)
loadSound(st, name, b, env) ==
  Once(st, LAMBDA s :
    LET id == Len(s.calls) + 1
        s1 == [AddCall(s, "loadSound", name) EXCEPT !.calls[id].batch = b]
    IN IF s1.audioContext = 0
         THEN Await(init(s1, env), id, id + 1, "awaitInit")
         ELSE loadSound_body(s1, id))

\* soundSources.map(sound => this.loadSound(...).catch(...)), entries i..NumSounds
LoadAll(st, i, b, env) ==
  Once(st, LAMBDA s :
    IF i > NumSounds THEN s
    ELSE LoadAll(loadSound(s, SourceAt(i), b, env), i + 1, b, env))

\* preloadAllSounds from line 93 on, up to `await this.preloadPromise'
preloadAllSounds_body(st, id, env) ==
  Once(st, LAMBDA s :
    LET b == Len(s.batches) + 1
        s1 == [s EXCEPT !.batches = Append(@, NewBatch(id))]
        s2 == LoadAll(s1, 1, b, env)
        s3 == [s2 EXCEPT !.preloadPromise = b]
    IN AwaitBatch(s3, id, b, "awaitBatch"))

preloadAllSounds(st, env) ==
  Once(st, LAMBDA s :
    LET id == Len(s.calls) + 1
        s1 == AddCall(s, "preloadAllSounds", Null)
    IN IF s1.audioContext = 0
         THEN Await(init(s1, env), id, id + 1, "awaitInit")
         ELSE preloadAllSounds_body(s1, id, env))

\* mutant of init: no `already initialized' early return
init_no_guard(st, env) ==
  Once(st, LAMBDA s :
    LET id == Len(s.calls) + 1
        s1 == AddCall(s, "init", Null)
    IN IF ~env.ctxOk THEN Settle(s1, id, "rejected", 0)
       ELSE LET s2 == [s1 EXCEPT !.audioContext = s1.ctxCount + 1,
                                 !.ctxCount = @ + 1]
            IN IF ~env.gainOk THEN Settle(s2, id, "rejected", 0)
               ELSE LET s3 == [s2 EXCEPT !.gainNode = [exists |-> TRUE, value |-> s2.volume],
                                         !.gainCount = @ + 1]
                    IN Await(preloadAllSounds(s3, env), id, id + 1, "awaitPreload"))

\* mutant of init: the new gain stage keeps its default value
init_default_gain(st, env) ==
  Once(st, LAMBDA s :
    LET id == Len(s.calls) + 1
        s1 == AddCall(s, "init", Null)
    IN IF s1.audioContext # 0 THEN Settle(s1, id, "fulfilled", 0)
       ELSE IF ~env.ctxOk THEN Settle(s1, id, "rejected", 0)
       ELSE LET s2 == [s1 EXCEPT !.audioContext = s1.ctxCount + 1,
                                 !.ctxCount = @ + 1]
            IN IF ~env.gainOk THEN Settle(s2, id, "rejected", 0)
               ELSE LET s3 == [s2 EXCEPT !.gainNode = [exists |-> TRUE, value |-> VolumeMax],
                                         !.gainCount = @ + 1]
                    IN Await(preloadAllSounds(s3, env), id, id + 1, "awaitPreload"))

\* init(), up to `await this.preloadAllSounds()'
init(st, env) ==
  Once(st, LAMBDA s :
    LET id == Len(s.calls) + 1
        s1 == AddCall(s, "init", Null)
    IN IF s1.audioContext # 0 THEN Settle(s1, id, "fulfilled", 0)
       ELSE IF ~env.ctxOk THEN Settle(s1, id, "rejected", 0)
       ELSE LET s2 == [s1 EXCEPT !.audioContext = s1.ctxCount + 1,
                                 !.ctxCount = @ + 1]
            IN IF ~env.gainOk THEN Settle(s2, id, "rejected", 0)
               ELSE LET s3 == [s2 EXCEPT !.gainNode = [exists |-> TRUE, value |-> s2.volume],
                                         !.gainCount = @ + 1]
                    IN Await(preloadAllSounds(s3, env), id, id + 1, "awaitPreload"))

\* mutants of pause: isPlaying left set; no disconnect; selection cleared
pause_keeps_isPlaying(st) ==
  Once(st, LAMBDA s :
    IF s.currentSourceNode # 0 /\ s.isPlaying
      THEN [s EXCEPT !.nodes[s.currentSourceNode].stops = @ + 1,
                     !.nodes[s.currentSourceNode].disconnects = @ + 1,
                     !.nodes[s.currentSourceNode].connected = FALSE,
                     !.currentSourceNode = 0]
      ELSE s)
pause_no_disconnect(st) ==
  Once(st, LAMBDA s :
    IF s.currentSourceNode # 0 /\ s.isPlaying
      THEN [s EXCEPT !.nodes[s.currentSourceNode].stops = @ + 1,
                     !.currentSourceNode = 0,
                     !.isPlaying = FALSE]
      ELSE s)
pause_clears_selection(st) ==
  Once(st, LAMBDA s :
    IF s.currentSourceNode # 0 /\ s.isPlaying
      THEN [s EXCEPT !.nodes[s.currentSourceNode].stops = @ + 1,
                     !.nodes[s.currentSourceNode].disconnects = @ + 1,
                     !.nodes[s.currentSourceNode].connected = FALSE,
                     !.currentSourceNode = 0,
                     !.isPlaying = FALSE,
                     !.selectedSound = Null]
      ELSE s)

pause(st) ==
  Once(st, LAMBDA s :
    IF s.currentSourceNode # 0 /\ s.isPlaying
      THEN [s EXCEPT !.nodes[s.currentSourceNode].stops = @ + 1,
                     !.nodes[s.currentSourceNode].disconnects = @ + 1,
                     !.nodes[s.currentSourceNode].connected = FALSE,
                     !.currentSourceNode = 0,
                     !.isPlaying = FALSE]
      ELSE s)

stop(s) ==
  pause(s)

\* mutant of play_start_voice: the voice in place is not torn down
play_start_voice_no_teardown(st, id, buffer) ==
  Once(st, LAMBDA s :
    LET n == Len(s.nodes) + 1
        s2 == [s EXCEPT !.nodes = Append(@, [NewNode(buffer, id) EXCEPT !.loop = TRUE]),
                        !.currentSourceNode = n]
    IN IF ~s2.gainNode.exists
         THEN Settle(s2, id, "rejected", 0)
         ELSE Settle([s2 EXCEPT !.nodes[n].connected = TRUE,
                                !.nodes[n].started = TRUE,
                                !.isPlaying = TRUE,
                                !.selectedSound = s.calls[id].arg],
                     id, "fulfilled", 0))

\* play, lines 138-151: tear down, create, connect, start
play_start_voice(st, id, buffer) ==
  Once(st, LAMBDA s :
    LET s1 == IF s.currentSourceNode # 0 THEN stop(s) ELSE s
        n == Len(s1.nodes) + 1
        s2 == [s1 EXCEPT !.nodes = Append(@, [NewNode(buffer, id) EXCEPT !.loop = TRUE]),
                         !.currentSourceNode = n]
    IN IF ~s2.gainNode.exists
         THEN Settle(s2, id, "rejected", 0)   \* connect(null) throws
         ELSE Settle([s2 EXCEPT !.nodes[n].connected = TRUE,
                                !.nodes[n].started = TRUE,
                                !.isPlaying = TRUE,
                                !.selectedSound = s.calls[id].arg],
                     id, "fulfilled", 0))

\* play, lines 121-136: find the buffer, or load it on demand
play_get_buffer(st, id) ==
  Once(st, LAMBDA s :
    LET name == s.calls[id].arg
    IN IF BufferOf(s, name) # 0 THEN play_start_voice(s, id, BufferOf(s, name))
       ELSE IF name \notin soundSources THEN Settle(s, id, "fulfilled", 0)
       ELSE Await(loadSound(s, name, 0, EnvOk), id, Len(s.calls) + 1, "awaitLoad"))

\* play, lines 116-119: wait for the preload batch
play_await_preload(st, id) ==
  Once(st, LAMBDA s :
    IF s.preloadPromise # 0
      THEN AwaitBatch(s, id, s.preloadPromise, "awaitPreloadPromise")
      ELSE play_get_buffer(s, id))

\* the batches whose Promise.all is pending when the first synchronous part of
\* a play call is over
BatchesInFlight(s) ==
  { b \in 1..Len(s.batches) : s.batches[b].st = "pending" }

\* the calls that have not settled
CallsPending(s) ==
  { i \in 1..Len(s.calls) : s.calls[i].st = "pending" }

play(st, name, env) ==
  Once(st, LAMBDA s :
    LET id == Len(s.calls) + 1
        s1 == AddCall(s, "play", name)
        s2 == IF s1.audioContext = 0
                THEN Await(init(s1, env), id, id + 1, "awaitInit")
                ELSE play_await_preload(s1, id)
    IN [s2 EXCEPT !.calls[id].at = [inflight |-> BatchesInFlight(s2),
                                    pending |-> CallsPending(s),
                                    playing |-> s.isPlaying,
                                    cur |-> s.currentSourceNode,
                                    sel |-> s.selectedSound,
                                    via |-> "play"]])

\* mutant of resume: the selection is not checked
resume_unchecked(st, env) ==
  Once(st, LAMBDA s :
    IF ~s.isPlaying
      THEN [play(s, s.selectedSound, env)
              EXCEPT !.calls[Len(s.calls) + 1].at.via = "resume"]
      ELSE s)

resume(st, env) ==
  Once(st, LAMBDA s :
    IF ~s.isPlaying /\ s.selectedSound # Null
      THEN [play(s, s.selectedSound, env)
              EXCEPT !.calls[Len(s.calls) + 1].at.via = "resume"]
      ELSE s)

\* mutant of setVolume: no lower clamp
setVolume_no_lower_clamp(st, v) ==
  Once(st, LAMBDA s :
    LET s1 == [s EXCEPT !.volume = Min(VolumeMax, v)]
    IN IF s1.gainNode.exists
         THEN [s1 EXCEPT !.gainNode.value = s1.volume]
         ELSE s1)

setVolume(st, v) ==
  Once(st, LAMBDA s :
    LET s1 == [s EXCEPT !.volume = Max(VolumeMin, Min(VolumeMax, v))]
    IN IF s1.gainNode.exists
         THEN [s1 EXCEPT !.gainNode.value = s1.volume]
         ELSE s1)

getState(s) ==
  [isPlaying |-> s.isPlaying, currentSound |-> s.selectedSound,
   volume |-> s.volume, isLoading |-> s.isLoading]

\* ------------------------------------------- continuations after an await
\* did the promise that call c was suspended on reject
AwaitedRejected(s, c) ==
  \/ c.child # 0 /\ s.calls[c.child].st = "rejected"
  \/ c.ab # 0 /\ s.batches[c.ab].st = "rejected"

\* the call resumes after the promise it awaited has settled
Resume(st, id) ==
  Once(st, LAMBDA s :
    LET c == s.calls[id]
        rejected == AwaitedRejected(s, c)
    IN CASE c.fn = "init" ->
              \* lines 48-52: a rejected preload is caught and rethrown
              Settle(s, id, IF rejected THEN "rejected" ELSE "fulfilled", 0)
         [] c.fn = "preloadAllSounds" /\ c.pc = "awaitInit" ->
              IF rejected THEN Settle(s, id, "rejected", 0)
              ELSE IF s.audioContext = 0 THEN Settle(s, id, "fulfilled", 0)
              ELSE preloadAllSounds_body(s, id, EnvOk)
         [] c.fn = "preloadAllSounds" /\ c.pc = "awaitBatch" ->
              Settle(s, id, IF rejected THEN "rejected" ELSE "fulfilled", 0)
         [] c.fn = "loadSound" ->
              IF rejected \/ s.audioContext = 0 THEN Settle(s, id, "rejected", 0)
              ELSE loadSound_body(s, id)
         [] c.fn = "play" /\ c.pc = "awaitInit" ->
              IF rejected THEN Settle(s, id, "rejected", 0)
              ELSE IF s.audioContext = 0 THEN Settle(s, id, "fulfilled", 0)
              ELSE play_await_preload(s, id)
         [] c.fn = "play" /\ c.pc = "awaitPreloadPromise" ->
              IF rejected THEN Settle(s, id, "rejected", 0)
              ELSE play_get_buffer(s, id)
         [] c.fn = "play" /\ c.pc = "awaitLoad" ->
              IF rejected THEN Settle(s, id, "fulfilled", 0)
              ELSE play_start_voice(s, id, s.calls[c.child].result))

\* Promise.all resolves: fulfilled unless a member rejected
ResolveBatch(st, b) ==
  Once(st, LAMBDA s :
    [s EXCEPT !.batches[b].st = IF s.batches[b].failed THEN "rejected" ELSE "fulfilled",
              !.batches[b].waiters = <<>>,
              !.mq = @ \o TasksOf(s.batches[b].waiters)])

\* mutant of loadSound_fetched: the cache entry is written when the response
\* arrives, before it is decoded
loadSound_fetched_caches(st, id, ok) ==
  Once(st, LAMBDA s :
    IF ok THEN [s EXCEPT !.calls[id].pc = "decode",
                         !.soundBuffers[s.calls[id].arg] = id]
    ELSE Settle([s EXCEPT !.isLoading = FALSE], id, "rejected", 0))

\* loadSound, lines 69-72: the fetch settles
loadSound_fetched(st, id, ok) ==
  Once(st, LAMBDA s :
    IF ok THEN [s EXCEPT !.calls[id].pc = "decode"]
    ELSE Settle([s EXCEPT !.isLoading = FALSE], id, "rejected", 0))

\* mutant of loadSound_decoded: isLoading is not cleared after a decode
loadSound_decoded_keeps_loading(st, id, ok) ==
  Once(st, LAMBDA s :
    IF ok THEN Settle([s EXCEPT !.soundBuffers[s.calls[id].arg] = id],
                      id, "fulfilled", id)
    ELSE Settle([s EXCEPT !.isLoading = FALSE], id, "rejected", 0))

\* mutant of loadSound_decoded: an entry already in the cache is kept
loadSound_decoded_first_wins(st, id, ok) ==
  Once(st, LAMBDA s :
    IF ok THEN Settle([s EXCEPT !.soundBuffers[s.calls[id].arg] =
                                   IF @ = 0 THEN id ELSE @,
                                !.isLoading = FALSE],
                      id, "fulfilled", id)
    ELSE Settle([s EXCEPT !.isLoading = FALSE], id, "rejected", 0))

\* loadSound, lines 73-83: arrayBuffer and decodeAudioData settle
loadSound_decoded(st, id, ok) ==
  Once(st, LAMBDA s :
    IF ok THEN Settle([s EXCEPT !.soundBuffers[s.calls[id].arg] = id,
                                !.isLoading = FALSE],
                      id, "fulfilled", id)
    ELSE Settle([s EXCEPT !.isLoading = FALSE], id, "rejected", 0))

\* ----------------------------------------------------------------- steps
Event(op, name, v, id) ==
  [op |-> op, name |-> name, v |-> v, id |-> id]

\* the platform outcomes an init() reached from state s can meet
Envs ==
  IF audioContext # 0 THEN {EnvOk}
  ELSE IF budget.fail < MaxFailures THEN {EnvOk, EnvCtxFails, EnvGainFails}
  ELSE {EnvOk}

UseAsync(env) ==
  budget' = [budget EXCEPT !.user = @ + 1,
                           !.fail = IF env = EnvOk THEN @ ELSE @ + 1]

DoInit ==
  /\ \E env \in Envs :
       /\ Commit(init(State, env))
       /\ UseAsync(env)
  /\ ev' = Event("init", Null, 0, Len(calls) + 1)

DoPreloadAllSounds ==
  /\ \E env \in Envs :
       /\ Commit(preloadAllSounds(State, env))
       /\ UseAsync(env)
  /\ ev' = Event("preloadAllSounds", Null, 0, Len(calls) + 1)

DoLoadSound ==
  /\ \E name \in Names, env \in Envs :
       /\ Commit(loadSound(State, name, 0, env))
       /\ UseAsync(env)
       /\ ev' = Event("loadSound", name, 0, Len(calls) + 1)

DoPlay ==
  /\ \E name \in Names, env \in Envs :
       /\ Commit(play(State, name, env))
       /\ UseAsync(env)
       /\ ev' = Event("play", name, 0, Len(calls) + 1)

DoResume ==
  /\ \E env \in Envs :
       /\ Commit(resume(State, env))
       /\ UseAsync(env)
  /\ ev' = Event("resume", selectedSound, 0,
                 IF ~isPlaying /\ selectedSound # Null THEN Len(calls) + 1 ELSE 0)

UserInit ==
  budget.user < MaxUserCalls /\ DoInit
UserPreloadAllSounds ==
  budget.user < MaxUserCalls /\ DoPreloadAllSounds
UserLoadSound ==
  budget.user < MaxUserCalls /\ DoLoadSound
UserPlay ==
  budget.user < MaxUserCalls /\ DoPlay
UserResume ==
  budget.user < MaxUserCalls /\ DoResume

UserPause ==
  /\ budget.sync < MaxSyncOps
  /\ Commit(pause(State))
  /\ budget' = [budget EXCEPT !.sync = @ + 1]
  /\ ev' = Event("pause", Null, 0, currentSourceNode)

UserStop ==
  /\ budget.sync < MaxSyncOps
  /\ Commit(stop(State))
  /\ budget' = [budget EXCEPT !.sync = @ + 1]
  /\ ev' = Event("stop", Null, 0, currentSourceNode)

UserSetVolume ==
  /\ budget.sync < MaxSyncOps
  /\ \E v \in VolumeInputs :
       /\ Commit(setVolume(State, v))
       /\ ev' = Event("setVolume", Null, v, 0)
  /\ budget' = [budget EXCEPT !.sync = @ + 1]

FetchDone ==
  /\ mq = <<>>
  /\ \E id \in 1..Len(calls), ok \in BOOLEAN :
       /\ calls[id].pc = "fetch"
       /\ ok \/ budget.fail < MaxFailures
       /\ Commit(loadSound_fetched(State, id, ok))
       /\ budget' = [budget EXCEPT !.fail = IF ok THEN @ ELSE @ + 1]
       /\ ev' = Event("fetch", calls[id].arg, IF ok THEN 1 ELSE 0, id)

DecodeDone ==
  /\ mq = <<>>
  /\ \E id \in 1..Len(calls), ok \in BOOLEAN :
       /\ calls[id].pc = "decode"
       /\ ok \/ budget.fail < MaxFailures
       /\ Commit(loadSound_decoded(State, id, ok))
       /\ budget' = [budget EXCEPT !.fail = IF ok THEN @ ELSE @ + 1]
       /\ ev' = Event("decode", calls[id].arg, IF ok THEN 1 ELSE 0, id)


\* ------------------------------------------------------ SettingsController
\* JavaScript values: numbers (hundredths), NaN, strings, booleans, null
Num(n) ==
  [t |-> "number", n |-> n, s |-> ""]
NaN ==
  [t |-> "NaN", n |-> 0, s |-> ""]
Str(s) ==
  [t |-> "string", n |-> 0, s |-> s]
Bool(b) ==
  [t |-> "boolean", n |-> IF b THEN 1 ELSE 0, s |-> ""]
JsNull ==
  [t |-> "null", n |-> 0, s |-> ""]

\* typeof v
TypeOf(v) ==
  CASE v.t = "NaN" -> "number"
    [] v.t = "null" -> "object"
    [] OTHER -> v.t

\* !!v
Truthy(v) ==
  CASE v.t = "number" -> v.n # 0
    [] v.t = "string" -> v.s # ""
    [] v.t = "boolean" -> v.n = 1
    [] OTHER -> FALSE

\* v < n and v > n for a v whose typeof is number: false for NaN
Lt(v, n) ==
  v.t = "number" /\ v.n < n
Gt(v, n) ==
  v.t = "number" /\ v.n > n

DEFAULTS ==
  [soundEnabled |-> Bool(TRUE), selectedSound |-> Str("Rain"),
   volume |-> Num(75), visualEnabled |-> Bool(TRUE),
   reducedMotion |-> Bool(FALSE), lastUsed |-> JsNull,
   sessionCount |-> Num(0)]

\* property names every object inherits from Object.prototype
ObjectPrototypeKeys ==
  {"toString", "constructor"}

\* key in obj
KeyIn(key, obj) ==
  key \in DOMAIN obj \/ key \in ObjectPrototypeKeys

\* mutant of Spread: the entries of base win
SpreadBaseWins(base, over) ==
  [k \in DOMAIN base \cup DOMAIN over |->
     IF k \in DOMAIN base THEN base[k] ELSE over[k]]

\* { ...base, ...over }
Spread(base, over) ==
  [k \in DOMAIN base \cup DOMAIN over |->
     IF k \in DOMAIN over THEN over[k] ELSE base[k]]

\* obj[key] = value
Assign(obj, key, value) ==
  [k \in DOMAIN obj \cup {key} |-> IF k = key THEN value ELSE obj[k]]

EmptyObject ==
  [k \in {} |-> JsNull]

\* what localStorage holds under STORAGE_KEY: nothing, the empty string, text
\* that is not JSON, the JSON text `null', or the JSON text of an object
NoItem ==
  [kind |-> "absent", obj |-> EmptyObject]
EmptyItem ==
  [kind |-> "empty", obj |-> EmptyObject]
InvalidJsonItem ==
  [kind |-> "text", obj |-> EmptyObject]
JsonNullItem ==
  [kind |-> "jsonnull", obj |-> EmptyObject]
JsonItem(obj) ==
  [kind |-> "json", obj |-> obj]

\* JSON.stringify(obj): NaN is written as null
Stringify(obj) ==
  JsonItem([k \in DOMAIN obj |-> IF obj[k].t = "NaN" THEN JsNull ELSE obj[k]])

\* the outcome of an expression: a value, or an exception thrown
Returned(v) ==
  [thrown |-> FALSE, value |-> v]
Thrown ==
  [thrown |-> TRUE, value |-> EmptyObject]

\* JSON.parse(item), for an item that is a non-empty string; the parsed `null'
\* spreads like an empty object
Parse(item) ==
  CASE item.kind = "json" -> Returned(item.obj)
    [] item.kind = "jsonnull" -> Returned(EmptyObject)
    [] OTHER -> Thrown

\* mutant of loadSettings: no try/catch around the read and the parse
loadSettings_no_catch(item, readThrows) ==
  IF readThrows THEN Thrown
  ELSE IF item.kind \in {"absent", "empty"} THEN Returned(DEFAULTS)
  ELSE IF Parse(item).thrown THEN Thrown
  ELSE Returned(Spread(DEFAULTS, Parse(item).value))

\* loadSettings(): the record, and whether an exception escapes
loadSettings(item, readThrows) ==
  IF readThrows THEN Returned(DEFAULTS)
  ELSE IF item.kind \in {"absent", "empty"} THEN Returned(DEFAULTS)
  ELSE IF Parse(item).thrown THEN Returned(DEFAULTS)
  ELSE Returned(Spread(DEFAULTS, Parse(item).value))

\* the store as one record
Store ==
  [settings |-> settings, localStorage |-> localStorage,
   setItemCalls |-> setItemCalls, thrown |-> FALSE]

\* mutant of saveSettings: no try/catch around the write
saveSettings_no_catch(st, writeThrows) ==
  IF writeThrows
    THEN [st EXCEPT !.setItemCalls = @ + 1, !.thrown = TRUE]
    ELSE [st EXCEPT !.setItemCalls = @ + 1,
                    !.localStorage = Stringify(st.settings)]

\* saveSettings(): a write that throws is caught and logged
saveSettings(st, writeThrows) ==
  IF writeThrows
    THEN [st EXCEPT !.setItemCalls = @ + 1]
    ELSE [st EXCEPT !.setItemCalls = @ + 1,
                    !.localStorage = Stringify(st.settings)]

get(st, key) ==
  st.settings[key]

\* set(key, value)
set(st, key, value, writeThrows) ==
  IF key = "volume" /\ (TypeOf(value) # "number" \/ Lt(value, 0) \/ Gt(value, 100))
    THEN st
  ELSE IF key = "selectedSound" /\ (~Truthy(value) \/ TypeOf(value) # "string")
    THEN st
  ELSE IF KeyIn(key, st.settings)
    THEN saveSettings([st EXCEPT !.settings = Assign(@, key, value)], writeThrows)
    ELSE st

\* currentCount + 1: a number is incremented, a string is concatenated with "1"
PlusOne(v) ==
  CASE v.t = "number" -> Num(v.n + 100)
    [] v.t = "string" -> Str(v.s \o "1")
    [] v.t = "boolean" -> Num(200)
    [] OTHER -> NaN

\* new Date().toISOString()
NowISO ==
  Str("2024-01-01T00:00:00.000Z")

\* incrementSessionCount()
incrementSessionCount(st, w1, w2) ==
  LET currentCount == IF Truthy(get(st, "sessionCount"))
                        THEN get(st, "sessionCount") ELSE Num(0)
  IN set(set(st, "sessionCount", PlusOne(currentCount), w1), "lastUsed", NowISO, w2)

\* the values the stored JSON object may hold, and its keys
BlobValues ==
  {Num(50), Num(500), Str("Forest"), Str(""), JsNull}
BlobKeys ==
  {"volume", "selectedSound", "theme"}
\* what localStorage may hold when the application starts
Blobs ==
  {NoItem, EmptyItem, InvalidJsonItem, JsonNullItem}
    \cup { JsonItem(obj) : obj \in UNION { [K -> BlobValues] : K \in SUBSET BlobKeys } }

\* the arguments of set
SetKeys ==
  {"volume", "selectedSound", "reducedMotion", "theme", "unknownKey", "toString"}
SetValues ==
  {Num(20), Num(500), Num(-10), NaN, Str("Forest"), Str(""), JsNull}

StoreEvent(op, key, value, escaped) ==
  [op |-> op, key |-> key, value |-> value, escaped |-> escaped]

StoreCommit(st) ==
  /\ settings' = st.settings
  /\ localStorage' = st.localStorage
  /\ setItemCalls' = st.setItemCalls

\* new SettingsController(): at start, or again after a reload of the page
StoreNew ==
  /\ storeOps < MaxStoreOps
  /\ \E readThrows \in BOOLEAN :
       LET loaded == loadSettings(localStorage, readThrows)
       IN /\ settings' = (IF loaded.thrown THEN settings ELSE loaded.value)
          /\ sev' = StoreEvent(IF readThrows THEN "new_read_throws" ELSE "new",
                               "", JsNull, loaded.thrown)
  /\ instances' = instances + 1
  /\ storeOps' = storeOps + 1
  /\ UNCHANGED <<localStorage, setItemCalls>>
  /\ UNCHANGED <<audioVars, pageVars>>

StoreSet ==
  /\ storeOps < MaxStoreOps /\ instances > 0
  /\ \E key \in SetKeys, value \in SetValues, writeThrows \in BOOLEAN :
       LET st == set(Store, key, value, writeThrows)
       IN /\ StoreCommit(st)
          /\ sev' = StoreEvent(IF writeThrows THEN "set_write_throws" ELSE "set",
                               key, value, st.thrown)
  /\ storeOps' = storeOps + 1
  /\ UNCHANGED instances
  /\ UNCHANGED <<audioVars, pageVars>>

StoreIncrementSessionCount ==
  /\ storeOps < MaxStoreOps /\ instances > 0
  /\ \E w1 \in BOOLEAN, w2 \in BOOLEAN :
       LET st == incrementSessionCount(Store, w1, w2)
       IN /\ StoreCommit(st)
          /\ sev' = StoreEvent(IF w1 \/ w2 THEN "increment_write_throws"
                               ELSE "increment", "sessionCount", JsNull, st.thrown)
  /\ storeOps' = storeOps + 1
  /\ UNCHANGED instances
  /\ UNCHANGED <<audioVars, pageVars>>

\* no settings store has been constructed
StoreUnused ==
  /\ settings = DEFAULTS
  /\ localStorage = NoItem
  /\ instances = 0
  /\ setItemCalls = 0
  /\ storeOps = 0
  /\ sev = StoreEvent("none", "", JsNull, FALSE)

\* ============================================== BackgroundController
\* The colour cycler (the BackgroundController.js kept in
\* src/src/SettingsController.test.js, lines 128-265).  The browser is the
\* clock `now' and the set `timers' of pending setTimeout callbacks; a
\* timer runs when its time has come, and time moves in steps of Tick.
\* Times are milliseconds.

baseTransitionDuration ==
  45000

\* the step of the clock: a quarter of the base interval
Tick ==
  baseTransitionDuration \div 4

\* this.timeoutId = null
NoTimer ==
  0

\* this.lastCycleTime before the first cycle
Undefined ==
  -1

calmingColorPalettes ==
  << [name |-> "Deep Ocean",    color |-> "#003973"],
     [name |-> "Clear Sky",     color |-> "#75DBCD"],
     [name |-> "Evening Blue",  color |-> "#2E4057"],
     [name |-> "Forest Green",  color |-> "#294B29"],
     [name |-> "Minty Fresh",   color |-> "#A2D9A5"],
     [name |-> "Olive Grove",   color |-> "#5C5E3A"],
     [name |-> "Lavender Mist", color |-> "#E6E6FA"],
     [name |-> "Deep Purple",   color |-> "#4B0082"],
     [name |-> "Sandy Beach",   color |-> "#F4A460"],
     [name |-> "Warm Taupe",    color |-> "#A98F78"],
     [name |-> "Soft Lilac",    color |-> "#C8A2C8"],
     [name |-> "Misty Blue",    color |-> "#A0B2C6"] >>

\* the palettes a controller is run with: the first n entries of the list
Palettes ==
  { SubSeq(calmingColorPalettes, 1, n) : n \in 0..MaxPalette }

\* getRandomPalette's fallback for an empty palette
DefaultPalette ==
  [name |-> "Default", color |-> "#2E4057"]

\* setReducedMotion's fallback for an empty palette
StaticBlue ==
  [name |-> "Static Blue", color |-> "#2E4057"]

\* element.style.backgroundColor before anything was painted
NoColor ==
  ""

\* the speed factors a caller passes
SpeedFactors ==
  {-1, 0, 1, 2, 4}

\* a / b of two numbers of the model: b divides a, of either sign
Quot(a, b) ==
  IF b > 0 THEN a \div b ELSE -(a \div (-b))

\* the controller and the browser as one record, so that a method is an
\* operator from world to world
World ==
  [o |-> background, timers |-> timers, seq |-> timerSeq, now |-> now,
   paints |-> bgHist.paints]

\* setTimeout(cb, delay): the handle returned is the new w.seq
setTimeout(w, cb, delay) ==
  [w EXCEPT !.seq = @ + 1,
            !.timers = @ \cup {[id |-> w.seq + 1, due |-> w.now + delay,
                                cb |-> cb]}]

clearTimeout(w, id) ==
  [w EXCEPT !.timers = {t \in @ : t.id # id}]

\* a new BackgroundController(element) run with the given palettes
NewBackground(palettes) ==
  [palettes |-> palettes,
   lastPaletteIndex |-> -1,
   transitionDuration |-> baseTransitionDuration,
   timeoutId |-> NoTimer,
   lastCycleTime |-> Undefined,
   backgroundColor |-> NoColor]

\* mutant: any index may come out of the draw
RandomIndexAny(o) ==
  0 .. (Len(o.palettes) - 1)

\* the values the do-while loop of getRandomPalette can leave in
\* randomIndex (counted from 0; a sequence of the model is counted from 1)
RandomIndex(o) ==
  { i \in 0 .. (Len(o.palettes) - 1) : i # o.lastPaletteIndex }

\* the draws of one getRandomPalette call (none is made for a palette of
\* fewer than two entries)
Draws(o) ==
  IF Len(o.palettes) < 2 THEN {-1} ELSE RandomIndex(o)

getRandomPalette(o, randomIndex) ==
  IF Len(o.palettes) = 0
  THEN [o |-> o, index |-> -1, palette |-> DefaultPalette]
  ELSE IF Len(o.palettes) = 1
  THEN [o |-> o, index |-> 0, palette |-> o.palettes[1]]
  ELSE [o |-> [o EXCEPT !.lastPaletteIndex = randomIndex],
        index |-> randomIndex, palette |-> o.palettes[randomIndex + 1]]

applyColor(o, palette) ==
  [o EXCEPT !.backgroundColor = palette.color]

\* cycleColor(); `paints' keeps the palette indexes of the last two cycles
cycleColor(w, randomIndex) ==
  LET got == getRandomPalette(w.o, randomIndex)
      painted == [applyColor(got.o, got.palette) EXCEPT !.lastCycleTime = w.now]
      timed == setTimeout([w EXCEPT !.o = painted], "cycleColor",
                          painted.transitionDuration)
  IN [timed EXCEPT !.o.timeoutId = timed.seq,
                   !.paints = <<@[2], got.index>>]

start(w, randomIndex) ==
  cycleColor(w, randomIndex)

\* stop(); the name is taken by the audio engine's stop
stopCycling(w) ==
  IF w.o.timeoutId # NoTimer
  THEN [clearTimeout(w, w.o.timeoutId) EXCEPT !.o.timeoutId = NoTimer]
  ELSE w

\* this.palettes[0] || { name: 'Static Blue', color: '#2E4057' }
StaticEntry(o) ==
  IF Len(o.palettes) > 0 THEN o.palettes[1] ELSE StaticBlue

setReducedMotion(w, enabled, randomIndex) ==
  IF enabled
  THEN LET stopped == stopCycling(w)
       IN [stopped EXCEPT !.o = applyColor(stopped.o, StaticEntry(stopped.o))]
  ELSE start(w, randomIndex)

\* mutant: the rejected call has already cleared the timer
setSpeed_clears_first(w, speedFactor) ==
  LET o == w.o
      cleared == IF o.timeoutId # NoTimer THEN clearTimeout(w, o.timeoutId)
                 ELSE w
  IN IF speedFactor <= 0 THEN cleared
     ELSE LET elapsed == w.now - (IF o.lastCycleTime = Undefined
                                     \/ o.lastCycleTime = 0
                                  THEN w.now ELSE o.lastCycleTime)
              duration == Quot(baseTransitionDuration, speedFactor)
              remaining == Max(0, duration - elapsed)
              timed == setTimeout([cleared EXCEPT !.o.transitionDuration = duration],
                                  "cycleColor", remaining)
          IN [timed EXCEPT !.o.timeoutId = timed.seq]

\* mutant: the rest of the interval is not shortened by the time elapsed
setSpeed_full_interval(w, speedFactor) ==
  IF speedFactor <= 0 THEN w
  ELSE LET o == w.o
           duration == Quot(baseTransitionDuration, speedFactor)
           cleared == IF o.timeoutId # NoTimer THEN clearTimeout(w, o.timeoutId)
                      ELSE w
           timed == setTimeout([cleared EXCEPT !.o.transitionDuration = duration],
                               "cycleColor", duration)
       IN [timed EXCEPT !.o.timeoutId = timed.seq]

setSpeed(w, speedFactor) ==
  IF speedFactor <= 0 THEN w
  ELSE LET o == w.o
           \* Date.now() - (this.lastCycleTime || Date.now())
           elapsed == w.now - (IF o.lastCycleTime = Undefined
                                  \/ o.lastCycleTime = 0
                               THEN w.now ELSE o.lastCycleTime)
           duration == Quot(baseTransitionDuration, speedFactor)
           remaining == Max(0, duration - elapsed)
           cleared == IF o.timeoutId # NoTimer THEN clearTimeout(w, o.timeoutId)
                      ELSE w
           timed == setTimeout([cleared EXCEPT !.o.transitionDuration = duration],
                               "cycleColor", remaining)
       IN [timed EXCEPT !.o.timeoutId = timed.seq]

\* the pending timer the browser runs next: the earliest, and of two of
\* the same time the one installed first
DueTimers ==
  { t \in timers : t.due <= now }

NextTimer ==
  CHOOSE t \in DueTimers :
    \A u \in DueTimers : t.due < u.due \/ (t.due = u.due /\ t.id <= u.id)

\* a step of the cycler and the time it was taken at
BgEvent(op, arg) ==
  [op |-> op, arg |-> arg, at |-> now]

\* what the caller has asked for last: "idle" (never started), "cycling"
\* (start or setReducedMotion(false)), "stopped" (stop) or "static"
\* (setReducedMotion(true)); `quiet' is the request to stay still that no
\* later start, setReducedMotion(false) or accepted setSpeed has ended;
\* `paintedAt' is the time of the last applyColor call
BgCommit(w, op, arg, mode, quiet) ==
  /\ background' = w.o
  /\ timers' = w.timers
  /\ timerSeq' = w.seq
  /\ bgHist' = [mode |-> mode, quiet |-> quiet, paints |-> w.paints,
                paintedAt |-> IF op \in {"stop", "setSpeed"}
                              THEN bgHist.paintedAt ELSE now]
  /\ bev' = BgEvent(op, arg)
  /\ UNCHANGED now

BgStart ==
  /\ bgOps < MaxBgOps
  /\ \E r \in Draws(background) :
       BgCommit(start(World, r), "start", 0, "cycling", "no")
  /\ bgOps' = bgOps + 1
  /\ UNCHANGED <<audioVars, storeVars, uiVars, ddVars>>

BgStop ==
  /\ bgOps < MaxBgOps
  /\ BgCommit(stopCycling(World), "stop", 0, "stopped", "stop")
  /\ bgOps' = bgOps + 1
  /\ UNCHANGED <<audioVars, storeVars, uiVars, ddVars>>

BgSetReducedMotion ==
  /\ bgOps < MaxBgOps
  /\ \E enabled \in BOOLEAN :
       \E r \in (IF enabled THEN {-1} ELSE Draws(background)) :
         BgCommit(setReducedMotion(World, enabled, r), "setReducedMotion",
                  IF enabled THEN 1 ELSE 0,
                  IF enabled THEN "static" ELSE "cycling",
                  IF enabled THEN "static" ELSE "no")
  /\ bgOps' = bgOps + 1
  /\ UNCHANGED <<audioVars, storeVars, uiVars, ddVars>>

BgSetSpeed ==
  /\ bgOps < MaxBgOps
  /\ \E speedFactor \in SpeedFactors :
       BgCommit(setSpeed(World, speedFactor), "setSpeed", speedFactor,
                bgHist.mode,
                IF speedFactor > 0 THEN "no" ELSE bgHist.quiet)
  /\ bgOps' = bgOps + 1
  /\ UNCHANGED <<audioVars, storeVars, uiVars, ddVars>>

\* a cycle timer runs: () => this.cycleColor()
BgTimerFires ==
  /\ DueTimers # {}
  /\ NextTimer.cb = "cycleColor"
  /\ \E r \in Draws(background) :
       BgCommit(cycleColor(clearTimeout(World, NextTimer.id), r), "timer",
                NextTimer.id, bgHist.mode, bgHist.quiet)
  /\ UNCHANGED bgOps
  /\ UNCHANGED <<audioVars, storeVars, uiVars, ddVars>>

\* time passes while no timer is due
BgTick ==
  /\ DueTimers = {}
  /\ now < MaxBgTicks * Tick
  /\ now' = now + Tick
  /\ UNCHANGED <<background, timers, timerSeq, bgHist, bgOps, bev>>
  /\ UNCHANGED <<audioVars, storeVars, uiVars, ddVars>>

\* ====================================================== UIController
\* The auto-hiding controls and the error banner of
\* src/src/UIController.js, over the same browser clock and timers.

\* the delay after which displayError fades the banner
ErrorDelay ==
  4000

\* initControlHiding's default inactivity window
DefaultInactivity ==
  8000

\* the step of the clock of the controls: half the delay of the banner
UiTickMs ==
  ErrorDelay \div 2

\* the inactivity windows passed to initControlHiding
InactivityDurations ==
  {0, ErrorDelay, DefaultInactivity}

\* the document events that show the controls
ActivityEvents ==
  {"mousemove", "mousedown", "touchstart", "keydown"}

Messages ==
  {"Please select a sound first.", "Audio system could not start."}

\* a new UIController on a page with or without a .controls element
NewUi(controlsElement) ==
  [controlsElement |-> controlsElement,
   hidden |-> FALSE,
   activityTimer |-> NoTimer,
   inactivityDuration |-> Undefined,
   listeners |-> 0,
   errorDisplayElement |-> FALSE,
   textContent |-> "",
   opacity |-> ""]

UiWorld ==
  [o |-> ui, timers |-> timers, seq |-> timerSeq, now |-> now]

\* displayError(message): the handle of the timer is not kept
displayError(w, message) ==
  LET shown == [w EXCEPT !.o.errorDisplayElement = TRUE,
                         !.o.textContent = message,
                         !.o.opacity = "1"]
  IN setTimeout(shown, "errorFade", ErrorDelay)

\* () => { this.errorDisplayElement.style.opacity = '0'; }
errorFade(w) ==
  [w EXCEPT !.o.opacity = "0"]

hideControls(w) ==
  IF ~w.o.controlsElement THEN w
  ELSE [w EXCEPT !.o.hidden = TRUE]

\* if (this.activityTimer) clearTimeout(this.activityTimer)
clearActivityTimer(w) ==
  IF w.o.activityTimer # NoTimer THEN clearTimeout(w, w.o.activityTimer)
  ELSE w

\* mutant: the previous timer is left pending
resetActivityTimer_no_clear(w) ==
  IF w.o.inactivityDuration > 0
  THEN LET timed == setTimeout(w, "hideControls", w.o.inactivityDuration)
       IN [timed EXCEPT !.o.activityTimer = timed.seq]
  ELSE w

\* _resetActivityTimer()
resetActivityTimer(w) ==
  LET cleared == clearActivityTimer(w)
  IN IF cleared.o.inactivityDuration > 0
     THEN LET timed == setTimeout(cleared, "hideControls",
                                  cleared.o.inactivityDuration)
          IN [timed EXCEPT !.o.activityTimer = timed.seq]
     ELSE cleared

showControls(w) ==
  IF ~w.o.controlsElement THEN w
  ELSE resetActivityTimer([w EXCEPT !.o.hidden = FALSE])

\* initControlHiding(inactivityDuration): every call adds the listeners again
initControlHiding(w, inactivityDuration) ==
  LET kept == [w EXCEPT !.o.inactivityDuration = inactivityDuration]
  IN IF ~w.o.controlsElement THEN kept
     ELSE resetActivityTimer([kept EXCEPT !.o.listeners = @ + 1])

\* the listeners of initControlHiding: focusin, focusout, mouseenter and
\* mouseleave on the controls, and the four document events
Listener(kind, w) ==
  CASE kind = "focusin" -> clearActivityTimer(showControls(w))
    [] kind = "focusout" -> resetActivityTimer(w)
    [] kind = "mouseenter" -> clearActivityTimer(w)
    [] kind = "mouseleave" -> resetActivityTimer(w)
    [] OTHER -> showControls(w)

\* an event runs the listener once for every time it was added
RECURSIVE Dispatch(_, _, _)
Dispatch(kind, n, w) ==
  IF n = 0 THEN w ELSE Dispatch(kind, n - 1, Listener(kind, w))

UiEvent(op, arg) ==
  [op |-> op, arg |-> arg, at |-> now]

\* `focused' and `hovering': focus and pointer are inside the controls;
\* `activityAt': the time of the last event that shows the controls;
\* `eventAt': the time of the last event or initControlHiding call;
\* `errorAt': the time of the last displayError call
UiCommit(w, op, arg, hist) ==
  /\ ui' = w.o
  /\ timers' = w.timers
  /\ timerSeq' = w.seq
  /\ uiHist' = hist
  /\ uev' = UiEvent(op, arg)
  /\ UNCHANGED now

UiInitControlHiding ==
  /\ uiOps < MaxUiOps
  /\ \E d \in InactivityDurations :
       UiCommit(initControlHiding(UiWorld, d), "initControlHiding", d,
                [uiHist EXCEPT !.eventAt = now])
  /\ uiOps' = uiOps + 1
  /\ UNCHANGED <<audioVars, storeVars, bgVars, ddVars>>

\* mousemove, mousedown, touchstart or keydown on the document
UiActivity ==
  /\ uiOps < MaxUiOps
  /\ ui.listeners > 0
  /\ \E kind \in ActivityEvents :
       UiCommit(Dispatch(kind, ui.listeners, UiWorld), kind, "",
                [uiHist EXCEPT !.eventAt = now, !.activityAt = now])
  /\ uiOps' = uiOps + 1
  /\ UNCHANGED <<audioVars, storeVars, bgVars, ddVars>>

UiFocusIn ==
  /\ uiOps < MaxUiOps
  /\ ui.listeners > 0 /\ ~uiHist.focused
  /\ UiCommit(Dispatch("focusin", ui.listeners, UiWorld), "focusin", "",
              [uiHist EXCEPT !.eventAt = now, !.activityAt = now,
                             !.focused = TRUE])
  /\ uiOps' = uiOps + 1
  /\ UNCHANGED <<audioVars, storeVars, bgVars, ddVars>>

UiFocusOut ==
  /\ uiOps < MaxUiOps
  /\ ui.listeners > 0 /\ uiHist.focused
  /\ UiCommit(Dispatch("focusout", ui.listeners, UiWorld), "focusout", "",
              [uiHist EXCEPT !.eventAt = now, !.focused = FALSE])
  /\ uiOps' = uiOps + 1
  /\ UNCHANGED <<audioVars, storeVars, bgVars, ddVars>>

UiMouseEnter ==
  /\ uiOps < MaxUiOps
  /\ ui.listeners > 0 /\ ~uiHist.hovering
  /\ UiCommit(Dispatch("mouseenter", ui.listeners, UiWorld), "mouseenter", "",
              [uiHist EXCEPT !.eventAt = now, !.hovering = TRUE])
  /\ uiOps' = uiOps + 1
  /\ UNCHANGED <<audioVars, storeVars, bgVars, ddVars>>

UiMouseLeave ==
  /\ uiOps < MaxUiOps
  /\ ui.listeners > 0 /\ uiHist.hovering
  /\ UiCommit(Dispatch("mouseleave", ui.listeners, UiWorld), "mouseleave", "",
              [uiHist EXCEPT !.eventAt = now, !.hovering = FALSE])
  /\ uiOps' = uiOps + 1
  /\ UNCHANGED <<audioVars, storeVars, bgVars, ddVars>>

UiDisplayError ==
  /\ uiOps < MaxUiOps
  /\ \E message \in Messages :
       UiCommit(displayError(UiWorld, message), "displayError", message,
                [uiHist EXCEPT !.errorAt = now])
  /\ uiOps' = uiOps + 1
  /\ UNCHANGED <<audioVars, storeVars, bgVars, ddVars>>

\* a timer of the controls runs: hideControls or the banner's fade
UiTimerFires ==
  /\ DueTimers # {}
  /\ NextTimer.cb \in {"hideControls", "errorFade"}
  /\ LET w == clearTimeout(UiWorld, NextTimer.id)
     IN UiCommit(IF NextTimer.cb = "hideControls" THEN hideControls(w)
                 ELSE errorFade(w),
                 NextTimer.cb, "", uiHist)
  /\ UNCHANGED uiOps
  /\ UNCHANGED <<audioVars, storeVars, bgVars, ddVars>>

\* time passes while no timer is due
UiTick ==
  /\ DueTimers = {}
  /\ now < MaxUiTicks * UiTickMs
  /\ now' = now + UiTickMs
  /\ UNCHANGED <<timers, timerSeq, uiVars>>
  /\ UNCHANGED <<audioVars, storeVars, bgVars, ddVars>>

\* ------------------------------------------ UIController: custom dropdown
\* the keys pressed on the sound selector
Keys ==
  {"Escape", "Enter", " ", "ArrowDown", "ArrowUp", "Tab"}

\* soundSources as main.js hands it to populateSoundOptions
SourceList ==
  [i \in 1..NumSounds |-> SourceAt(i)]

\* the selector after the constructor: the trigger's aria-expanded, the
\* list's 'open' class, the data-value of every li, the indices of the li
\* elements that carry 'focused' and 'selected', the text of the trigger,
\* the bound callback, the keydown listeners added by bindSoundSelect and the
\* values the callback was invoked with
NewDropdown ==
  [expanded |-> FALSE, open |-> FALSE, options |-> <<>>, focused |-> {},
   selected |-> {}, selectedValue |-> "Select Sound",
   onSoundChangeCallback |-> FALSE, enterListeners |-> 0, notified |-> <<>>]

\* querySelector / findIndex: the first element of the list that is in S,
\* 0 when there is none
FirstOf(S) ==
  IF S = {} THEN 0 ELSE CHOOSE i \in S : \A j \in S : i <= j

\* mutant of setFocusedOption: the other options keep their 'focused' class
setFocusedOption_keeps_others(d, i) ==
  IF i \in 1..Len(d.options) THEN [d EXCEPT !.focused = @ \cup {i}] ELSE d

\* _setFocusedOption(options[i]); options[i] is undefined outside the list
setFocusedOption(d, i) ==
  [d EXCEPT !.focused = IF i \in 1..Len(d.options) THEN {i} ELSE {}]

\* _focusNextOption(), _focusPrevOption()
focusNextOption(d) ==
  LET nextIndex == FirstOf(d.focused) + 1
  IN setFocusedOption(d, IF nextIndex > Len(d.options) THEN 1 ELSE nextIndex)
focusPrevOption(d) ==
  LET nextIndex == FirstOf(d.focused) - 1
  IN setFocusedOption(d, IF nextIndex < 1 THEN Len(d.options) ELSE nextIndex)

\* _openDropdown(): the selected option, or else the first one, is focused
openDropdown(d) ==
  LET shown == [d EXCEPT !.expanded = TRUE, !.open = TRUE]
  IN IF shown.selected # {} THEN setFocusedOption(shown, FirstOf(shown.selected))
     ELSE IF Len(shown.options) > 0 THEN setFocusedOption(shown, 1)
     ELSE shown

\* mutant of closeDropdown: the 'focused' classes are left in place
closeDropdown_keeps_focus(d) ==
  [d EXCEPT !.expanded = FALSE, !.open = FALSE]

closeDropdown(d) ==
  [d EXCEPT !.expanded = FALSE, !.open = FALSE, !.focused = {}]

toggleDropdown(d) ==
  IF d.expanded THEN closeDropdown(d) ELSE openDropdown(d)

\* _selectOption(value, optionElement) with optionElement the li at index i
selectOption(d, value, i) ==
  LET marked == [d EXCEPT !.selected = {i}, !.selectedValue = value]
  IN IF marked.onSoundChangeCallback
       THEN [marked EXCEPT !.notified = Append(@, value)]
       ELSE marked

\* updateSoundSelection(soundName): the last li with that data-value
updateSoundSelection(d, soundName) ==
  LET hits == { i \in 1..Len(d.options) : d.options[i] = soundName }
  IN IF hits = {} THEN d
     ELSE [d EXCEPT !.selected = {CHOOSE i \in hits : \A j \in hits : j <= i},
                    !.selectedValue = soundName]

\* populateSoundOptions(soundSources): the old li elements are dropped
populateSoundOptions(d, sources) ==
  [d EXCEPT !.options = sources, !.focused = {}, !.selected = {}]

\* bindSoundSelect(callback): every call adds one more keydown listener
bindSoundSelect(d) ==
  [d EXCEPT !.onSoundChangeCallback = TRUE, !.enterListeners = @ + 1]

\* the click listener of the li at index i
optionClick(d, i) ==
  closeDropdown(selectOption(d, d.options[i], i))

\* the keydown listener added by _setupCustomDropdown
keydownSetup(d, key) ==
  CASE key = "Escape" -> closeDropdown(d)
    [] key \in {"Enter", " "} -> IF ~d.expanded THEN openDropdown(d) ELSE d
    [] key = "ArrowDown" ->
         focusNextOption(IF ~d.expanded THEN openDropdown(d) ELSE d)
    [] key = "ArrowUp" ->
         focusPrevOption(IF ~d.expanded THEN openDropdown(d) ELSE d)
    [] OTHER -> d

\* the keydown listener added by bindSoundSelect
keydownBound(d, key) ==
  LET focused == FirstOf(d.focused)
  IN IF key = "Enter" /\ focused # 0
       THEN closeDropdown(selectOption(d, d.options[focused], focused))
       ELSE d

RECURSIVE KeydownBoundTimes(_, _, _)
KeydownBoundTimes(d, key, n) ==
  IF n = 0 THEN d ELSE KeydownBoundTimes(keydownBound(d, key), key, n - 1)

\* a keydown on the container runs its listeners in the order in which they
\* were added: the constructor's first, then those of bindSoundSelect
keydown(d, key) ==
  LET first == keydownSetup(d, key)
  IN KeydownBoundTimes(first, key, first.enterListeners)

DdCommit(d, op, arg) ==
  /\ dropdown' = d
  /\ ddOps' = ddOps + 1
  /\ dev' = [op |-> op, arg |-> arg]
  /\ UNCHANGED <<audioVars, storeVars, bgVars, uiVars, now, timers, timerSeq>>

DdPopulateSoundOptions ==
  /\ ddOps < MaxDdOps
  /\ DdCommit(populateSoundOptions(dropdown, SourceList),
              "populateSoundOptions", "")
DdUpdateSoundSelection ==
  /\ ddOps < MaxDdOps
  /\ \E name \in Names :
       DdCommit(updateSoundSelection(dropdown, name), "updateSoundSelection", name)
DdBindSoundSelect ==
  /\ ddOps < MaxDdOps
  /\ DdCommit(bindSoundSelect(dropdown), "bindSoundSelect", "")
\* a click on the trigger, and one anywhere outside the container
DdTriggerClick ==
  /\ ddOps < MaxDdOps
  /\ DdCommit(toggleDropdown(dropdown), "triggerClick", "")
DdOutsideClick ==
  /\ ddOps < MaxDdOps
  /\ DdCommit(closeDropdown(dropdown), "outsideClick", "")
DdOptionClick ==
  /\ ddOps < MaxDdOps
  /\ \E i \in 1..Len(dropdown.options) :
       DdCommit(optionClick(dropdown, i), "optionClick", dropdown.options[i])
DdKeydown ==
  /\ ddOps < MaxDdOps
  /\ \E key \in Keys :
       DdCommit(keydown(dropdown, key), "keydown", key)

\* the selector has not been used
DropdownUnused ==
  /\ dropdown = NewDropdown
  /\ ddOps = 0
  /\ dev = [op |-> "none", arg |-> ""]

\* no UIController has been constructed
UiUnused ==
  /\ ui = NewUi(TRUE)
  /\ uiHist = [focused |-> FALSE, hovering |-> FALSE, activityAt |-> Undefined,
               eventAt |-> Undefined, errorAt |-> Undefined]
  /\ uiOps = 0
  /\ uev = [op |-> "none", arg |-> "", at |-> 0]

\* no BackgroundController has been started
CyclerUnused ==
  /\ background = NewBackground(calmingColorPalettes)
  /\ bgHist = [mode |-> "idle", quiet |-> "no", paints |-> <<-1, -1>>,
               paintedAt |-> Undefined]
  /\ bgOps = 0
  /\ bev = [op |-> "none", arg |-> 0, at |-> 0]

\* no page has been loaded: no controller, no timer
PageUnused ==
  /\ now = Tick
  /\ timers = {}
  /\ timerSeq = 0
  /\ CyclerUnused
  /\ UiUnused
  /\ DropdownUnused

\* ------------------------------------------------------ main.js: wiring
\* what main.js keeps besides the controllers: its audioInitialized flag, the
\* icon updatePlayButtonState last gave the play/pause button, and the last
\* message handed to displayError
NewApp ==
  [audioInitialized |-> FALSE, playButton |-> "play_arrow", errorMessage |-> ""]

HandlerFns ==
  {"handlePlayPause", "initializeAudio"}

\* the elements a keydown may be aimed at, and the key codes
TargetTags ==
  {"body", "input", "button"}
KeyCodes ==
  {"Space", "Enter"}

\* o.soundSelect: undefined on an object that was given no such property
SoundSelectOf(o) ==
  IF "soundSelect" \in DOMAIN o THEN o.soundSelect ELSE Undefined

\* settingsController.getSelectedSound() || soundSources[0].name
initialSound ==
  IF Truthy(settings.selectedSound) THEN settings.selectedSound.s ELSE SourceAt(1)

\* updatePlayButtonState(audioController.isPlaying)
updatePlayButtonState(st) ==
  [st EXCEPT !.app.playButton = IF st.isPlaying THEN "pause" ELSE "play_arrow"]

\* initializeAudio(): init() is awaited unless the flag is already set
initializeAudio(st, env) ==
  Once(st, LAMBDA s :
    LET id == Len(s.calls) + 1
        s1 == AddCall(s, "initializeAudio", Null)
    IN IF s1.app.audioInitialized THEN Settle(s1, id, "fulfilled", 0)
       ELSE Await(init(s1, env), id, id + 1, "awaitInit"))

\* handlePlayPause(), up to its first await
handlePlayPause(st, env) ==
  Once(st, LAMBDA s :
    LET id == Len(s.calls) + 1
        s1 == AddCall(s, "handlePlayPause", Null)
    IN Await(initializeAudio(s1, env), id, id + 1, "awaitInitializeAudio"))

\* handlePlayPause(), lines 279-293: reading .value of the undefined
\* uiController.soundSelect throws, and the handler's promise rejects
handlePlayPause_body(st, id) ==
  Once(st, LAMBDA s :
    IF ~s.app.audioInitialized THEN Settle(s, id, "fulfilled", 0)
    ELSE IF SoundSelectOf(ui) = Undefined THEN Settle(s, id, "rejected", 0)
    ELSE LET selectedSoundName == IF SoundSelectOf(ui).value # ""
                                    THEN SoundSelectOf(ui).value ELSE initialSound
         IN IF s.isPlaying
              THEN Settle(updatePlayButtonState(pause(s)), id, "fulfilled", 0)
              ELSE Await(play(s, selectedSoundName, EnvOk), id,
                         Len(s.calls) + 1, "awaitPlay"))

\* the handlers of main.js resume after an await
ResumeHandler(st, id) ==
  Once(st, LAMBDA s :
    LET c == s.calls[id]
        rejected == AwaitedRejected(s, c)
    IN CASE c.fn = "initializeAudio" ->
              \* lines 254-263: the flag is set, or the error is caught and shown
              IF rejected
                THEN Settle([s EXCEPT !.app.errorMessage =
                               "Audio system could not start. Please try interacting again."],
                            id, "fulfilled", 0)
                ELSE Settle([s EXCEPT !.app.audioInitialized = TRUE],
                            id, "fulfilled", 0)
         [] c.fn = "handlePlayPause" /\ c.pc = "awaitInitializeAudio" ->
              IF rejected THEN Settle(s, id, "fulfilled", 0)
              ELSE handlePlayPause_body(s, id)
         [] c.fn = "handlePlayPause" /\ c.pc = "awaitPlay" ->
              IF rejected THEN Settle(s, id, "rejected", 0)
              ELSE Settle(updatePlayButtonState(s), id, "fulfilled", 0))

\* the keydown listener of bindGlobalSpacebar
globalSpacebar(st, tag, code, env) ==
  IF tag \in {"input", "select", "textarea", "button"} THEN st
  ELSE IF code = "Space" THEN handlePlayPause(st, env)
  ELSE st

\* a click on the play/pause button
AppClick ==
  /\ budget.user < MaxActivations
  /\ \E env \in Envs :
       /\ Commit(handlePlayPause(State, env))
       /\ UseAsync(env)
  /\ ev' = Event("click", Null, 0, Len(calls) + 1)

\* a keydown on the document
AppKeydown ==
  /\ budget.user < MaxActivations
  /\ \E tag \in TargetTags, code \in KeyCodes, env \in Envs :
       LET activates == tag = "body" /\ code = "Space"
       IN /\ activates \/ env = EnvOk
          /\ Commit(globalSpacebar(State, tag, code, env))
          /\ UseAsync(env)
          /\ ev' = Event("keydown", code, 0,
                         IF activates THEN Len(calls) + 1 ELSE 0)

\* the head of the microtask queue runs
RunMicrotask ==
  /\ mq # <<>>
  /\ LET t == Head(mq)
         s == [State EXCEPT !.mq = Tail(mq)]
     IN /\ Commit(IF t.k = "batch" THEN ResolveBatch(s, t.id)
                   ELSE IF calls[t.id].fn \in HandlerFns THEN ResumeHandler(s, t.id)
                   ELSE Resume(s, t.id))
        /\ ev' = Event(IF t.k = "call" THEN "resume_" \o calls[t.id].fn ELSE "batch",
                       IF t.k = "call" THEN calls[t.id].arg ELSE Null, 0, t.id)
  /\ UNCHANGED budget

\* a fresh AudioController
EngineInit ==
  /\ audioContext = 0
  /\ gainNode = [exists |-> FALSE, value |-> 0]
  /\ soundBuffers = [n \in Names |-> 0]
  /\ currentSourceNode = 0
  /\ isPlaying = FALSE
  /\ selectedSound = Null
  /\ isLoading = FALSE
  /\ preloadPromise = 0
  /\ volume = DefaultVolume
  /\ nodes = <<>>
  /\ calls = <<>>
  /\ batches = <<>>
  /\ mq = <<>>
  /\ ctxCount = 0
  /\ gainCount = 0
  /\ budget = [user |-> 0, sync |-> 0, fail |-> 0]
  /\ app = NewApp
  /\ ev = Event("new", Null, 0, 0)

Init ==
  EngineInit /\ StoreUnused /\ PageUnused

Next ==
  \/ UserInit
  \/ UserPreloadAllSounds
  \/ UserLoadSound
  \/ UserPlay
  \/ UserResume
  \/ UserPause
  \/ UserStop
  \/ UserSetVolume
  \/ RunMicrotask
  \/ FetchDone
  \/ DecodeDone

Spec ==
  Init /\ [][Next]_vars

\* the settings store alone, started with any stored item
SettingsInit ==
  /\ EngineInit
  /\ localStorage \in Blobs
  /\ settings = DEFAULTS
  /\ instances = 0
  /\ setItemCalls = 0
  /\ storeOps = 0
  /\ sev = StoreEvent("none", "", JsNull, FALSE)
  /\ PageUnused

SettingsNext ==
  \/ StoreNew
  \/ StoreSet
  \/ StoreIncrementSessionCount

SettingsSpec ==
  SettingsInit /\ [][SettingsNext]_vars

\* the colour cycler alone, run with any of the palettes
BackgroundInit ==
  /\ EngineInit
  /\ StoreUnused
  /\ now = Tick
  /\ timers = {}
  /\ timerSeq = 0
  /\ background \in { NewBackground(p) : p \in Palettes }
  /\ bgHist = [mode |-> "idle", quiet |-> "no", paints |-> <<-1, -1>>,
               paintedAt |-> Undefined]
  /\ bgOps = 0
  /\ bev = BgEvent("new", 0)
  /\ UiUnused
  /\ DropdownUnused

BackgroundNext ==
  \/ BgStart
  \/ BgStop
  \/ BgSetReducedMotion
  \/ BgSetSpeed
  \/ BgTimerFires
  \/ BgTick

BackgroundSpec ==
  BackgroundInit /\ [][BackgroundNext]_vars

\* the controls and the banner alone, on a page with or without controls
UiInit ==
  /\ EngineInit
  /\ StoreUnused
  /\ CyclerUnused
  /\ now = UiTickMs
  /\ timers = {}
  /\ timerSeq = 0
  /\ ui \in { NewUi(c) : c \in BOOLEAN }
  /\ uiHist = [focused |-> FALSE, hovering |-> FALSE, activityAt |-> Undefined,
               eventAt |-> Undefined, errorAt |-> Undefined]
  /\ uiOps = 0
  /\ uev = [op |-> "new", arg |-> "", at |-> UiTickMs]
  /\ DropdownUnused

UiNext ==
  \/ UiInitControlHiding
  \/ UiActivity
  \/ UiFocusIn
  \/ UiFocusOut
  \/ UiMouseEnter
  \/ UiMouseLeave
  \/ UiDisplayError
  \/ UiTimerFires
  \/ UiTick

UiSpec ==
  UiInit /\ [][UiNext]_vars


\* the custom dropdown alone
DropdownInit ==
  EngineInit /\ StoreUnused /\ PageUnused

DropdownNext ==
  \/ DdPopulateSoundOptions
  \/ DdUpdateSoundSelection
  \/ DdBindSoundSelect
  \/ DdTriggerClick
  \/ DdOutsideClick
  \/ DdOptionClick
  \/ DdKeydown

DropdownSpec ==
  DropdownInit /\ [][DropdownNext]_vars


\* the play/pause control of main.js on top of the engine
AppNext ==
  \/ AppClick
  \/ AppKeydown
  \/ RunMicrotask
  \/ FetchDone
  \/ DecodeDone

AppSpec ==
  Init /\ [][AppNext]_vars

\* ================================================================ claims
NodeIds ==
  1..Len(nodes)
CallIds ==
  1..Len(calls)
\* a voice that was started and has not been stopped
Live(n) ==
  nodes[n].started /\ nodes[n].stops = 0
LiveVoices ==
  { n \in NodeIds : Live(n) }
\* the play call that finishes in this step by starting a voice
PlayStartsVoice(id) ==
  /\ id \in CallIds
  /\ calls[id].fn = "play" /\ calls[id].st = "pending"
  /\ calls'[id].st = "fulfilled"
  /\ Len(nodes') = Len(nodes) + 1

\* C1: at most one voice is live in every reachable state: every voice that was
\* started and is not the engine's current voice has been stopped and
\* disconnected, whatever the interleaving of init, play, pause, stop, resume.
C1_AtMostOneLiveVoice ==
  /\ Cardinality(LiveVoices) <= 1
  /\ \A n \in NodeIds :
       nodes[n].started /\ n # currentSourceNode
         => nodes[n].stops >= 1 /\ nodes[n].disconnects >= 1 /\ ~nodes[n].connected

\* two play calls overlapped: the later-issued one started its voice first
C1_Witness ==
  \E n1, n2 \in NodeIds :
    /\ n1 < n2 /\ nodes[n1].started /\ nodes[n2].started
    /\ nodes[n1].by > nodes[n2].by
    /\ currentSourceNode = n2

\* C2: isPlaying implies that a sound is selected and that the engine holds a
\* live voice.
C2_PlayingImpliesVoice ==
  isPlaying =>
    /\ selectedSound # Null
    /\ currentSourceNode # 0
    /\ Live(currentSourceNode)

C2_Witness ==
  /\ isPlaying /\ budget.sync > 0
  /\ \E n \in NodeIds : nodes[n].stops > 0

\* C3: when a play call starts its voice while the voice of an earlier play is
\* still playing, afterwards exactly one voice is live, it carries the buffer
\* of the new name, selectedSound is the new name, and the old voice has been
\* stopped and disconnected exactly once.
C3_PlayReplacesVoice ==
  [][\A id \in CallIds :
       PlayStartsVoice(id) /\ currentSourceNode # 0 /\ Live(currentSourceNode)
         => LET old == currentSourceNode
                new == currentSourceNode'
            IN /\ new = Len(nodes')
               /\ { n \in 1..Len(nodes') : nodes'[n].started /\ nodes'[n].stops = 0 } = {new}
               /\ nodes'[new].buffer = soundBuffers'[calls[id].arg]
               /\ calls'[nodes'[new].buffer].arg = calls[id].arg
               /\ nodes'[new].loop /\ nodes'[new].connected
               /\ selectedSound' = calls[id].arg
               /\ isPlaying'
               /\ nodes'[old].stops = 1 /\ nodes'[old].disconnects = 1]_vars

\* play(A) was awaited, then play(B) with B # A was issued and has replaced it
C3_Witness ==
  \E id \in CallIds :
    /\ ev.op = "resume_play" /\ ev.id = id /\ calls[id].st = "fulfilled"
    /\ calls[id].at.playing /\ calls[id].at.cur # 0
    /\ calls[id].at.sel # calls[id].arg
    /\ nodes[calls[id].at.cur].stops = 1
    /\ currentSourceNode # 0 /\ nodes[currentSourceNode].by = id

\* C4: pause() called after a successful play(name) leaves isPlaying false and
\* the selected sound still name: pause never clears the selection.
C4_PauseKeepsSelection ==
  [][ev'.op = "pause"
       => /\ selectedSound' = selectedSound
          /\ (isPlaying =>
                /\ ~isPlaying'
                /\ currentSourceNode' = 0
                /\ selectedSound' \in Names
                /\ getState(State)' = [getState(State) EXCEPT !.isPlaying = FALSE])]_vars

C4_Witness ==
  /\ ev.op = "pause" /\ ev.id # 0
  /\ ~isPlaying /\ selectedSound \in soundSources
  /\ nodes[ev.id].started /\ nodes[ev.id].stops = 1


\* every engine field and all pending work, as a tuple
engine ==
  <<audioContext, gainNode, soundBuffers, currentSourceNode, isPlaying,
    selectedSound, isLoading, preloadPromise, volume, nodes, calls, batches,
    mq, ctxCount, gainCount>>

\* the play calls made by resume() that have not settled
ResumePending ==
  { id \in CallIds : calls[id].at.via = "resume" /\ calls[id].st = "pending" }

\* C5: resume() with nothing selected changes no state; resume() on an engine
\* that is not playing and has a selection starts a play of that selection,
\* which settles, and when it does the engine is playing the selection through
\* a voice created by this resume.
C5_Resume ==
  /\ [][ev'.op = "resume" /\ selectedSound = Null => UNCHANGED engine]_vars
  /\ [][ev'.op = "resume" /\ selectedSound # Null /\ ~isPlaying
          => /\ ev'.id = Len(calls) + 1
             /\ ev'.id \in ResumePending' \/ calls'[ev'.id].st = "fulfilled"
             /\ calls'[ev'.id].arg = selectedSound]_vars
  /\ [][\A id \in ResumePending :
          calls'[id].st # "pending"
            => /\ calls'[id].st = "fulfilled"
               /\ isPlaying' /\ selectedSound' = calls[id].arg
               /\ currentSourceNode' = Len(nodes') /\ Len(nodes') = Len(nodes) + 1
               /\ nodes'[currentSourceNode'].started
               /\ nodes'[currentSourceNode'].stops = 0
               /\ nodes'[currentSourceNode'].by = id]_vars
  /\ (ResumePending # {}) ~> (ResumePending = {})

\* a resume issued after a pause, while a preload batch was in flight, has
\* started its voice
C5_Witness ==
  /\ ev.op = "resume_play" /\ calls[ev.id].at.via = "resume"
  /\ calls[ev.id].at.inflight # {} /\ ~calls[ev.id].at.playing
  /\ calls[ev.id].st = "fulfilled" /\ isPlaying
  /\ selectedSound = calls[ev.id].at.sel
  /\ currentSourceNode > 1 /\ nodes[currentSourceNode].by = ev.id
  /\ \E n \in NodeIds : nodes[n].stops = 1 /\ nodes[n].buffer = nodes[currentSourceNode].buffer

\* C6: setVolume(v) stores v clamped to [0,1] and changes nothing else of the
\* engine (the gain stage, if any, follows the stored volume).
C6_SetVolumeClamps ==
  [][ev'.op = "setVolume"
       => /\ volume' = (IF ev'.v < VolumeMin THEN VolumeMin
                        ELSE IF ev'.v > VolumeMax THEN VolumeMax ELSE ev'.v)
          /\ UNCHANGED <<audioContext, soundBuffers, currentSourceNode, isPlaying,
                         selectedSound, isLoading, preloadPromise, nodes, calls,
                         batches, mq, ctxCount, gainCount>>
          /\ gainNode'.exists = gainNode.exists]_vars

C6_Witness ==
  /\ ev.op = "setVolume" /\ ev.v < VolumeMin /\ volume = VolumeMin
  /\ gainNode.exists /\ isPlaying

\* C7: init() on an engine that already has its audio context constructs no
\* context and no gain stage, starts no preload batch and resolves at once.
C7_InitIdempotent ==
  [][ev'.op = "init" /\ audioContext # 0
       => /\ UNCHANGED <<audioContext, gainNode, ctxCount, gainCount, batches,
                         preloadPromise, soundBuffers, isLoading>>
          /\ Len(calls') = Len(calls) + 1
          /\ calls'[Len(calls')].st = "fulfilled"]_vars

C7_Witness ==
  /\ ev.op = "init" /\ ev.id > 1 /\ calls[1].fn = "init"
  /\ calls[ev.id].st = "fulfilled"
  /\ ctxCount = 1 /\ gainCount = 1 /\ Len(batches) = 1

UserOps ==
  {"init", "preloadAllSounds", "loadSound", "play", "resume"}

\* C8: whenever init() rejects, whatever step of it failed, the engine keeps no
\* audio context (it is left Uninitialized).
C8_InitFailureLeavesUninitialized ==
  \A id \in {ev.id, ev.id + 1} \cap CallIds :
    (ev.op \in UserOps /\ calls[id].fn = "init" /\ calls[id].st = "rejected")
      => audioContext = 0

\* the batch was started by init(): an init call awaited the preloadAllSounds
\* call that made it
StartedByInit(b) ==
  \E i \in CallIds : calls[i].fn = "init" /\ calls[i].child = batches[b].by

\* C9: a voice created by a play call that was issued while the preload batch
\* started by init was in flight is created only after every load of that
\* batch has settled.
C9_PlayWaitsForPreload ==
  \A n \in NodeIds :
    \A b \in calls[nodes[n].by].at.inflight :
      StartedByInit(b) => batches[b].remaining = 0

\* the same for a play call that no direct preloadAllSounds() call overlaps:
\* the batch it found in flight is the only one
C9_PlayWaitsForOnlyBatch ==
  \A n \in NodeIds :
    \A b \in calls[nodes[n].by].at.inflight :
      StartedByInit(b) /\ Len(batches) = 1 => batches[b].remaining = 0

\* names for which some loadSound call has returned a buffer
LoadedNames ==
  { calls[id].arg : id \in { i \in CallIds : calls[i].fn = "loadSound"
                                              /\ calls[i].st = "fulfilled" } }

\* C10: no failure of a load rejects the preload batch, the preloadAllSounds
\* call or the init that awaits it; once the batch has settled, the cache holds
\* every entry the batch loaded and only entries whose load succeeded.
C10_PreloadToleratesFailures ==
  /\ \A b \in 1..Len(batches) :
       /\ batches[b].st # "rejected"
       /\ batches[b].st = "fulfilled"
            => /\ batches[b].remaining = 0
               /\ \A name \in batches[b].loaded : soundBuffers[name] # 0
               /\ \A name \in Names : soundBuffers[name] # 0 <=> name \in LoadedNames
               /\ \A name \in soundSources :
                    (\A id \in CallIds :
                       calls[id].fn = "loadSound" /\ calls[id].arg = name
                         => calls[id].batch = b)
                      => (soundBuffers[name] # 0 <=> name \in batches[b].loaded)
  /\ \A id \in CallIds :
       /\ calls[id].fn = "preloadAllSounds" /\ calls[id].ab # 0
            => calls[id].st # "rejected"
       /\ calls[id].fn = "init" /\ calls[id].child # 0
            => calls[id].st # "rejected"

\* a batch settled although one of its loads failed; the other entry is cached
C10_Witness ==
  \E b \in 1..Len(batches) :
    /\ batches[b].st = "fulfilled"
    /\ Cardinality(batches[b].loaded) = NumSounds - 1
    /\ { n \in Names : soundBuffers[n] # 0 } = batches[b].loaded
    /\ calls[1].fn = "init" /\ calls[1].st = "fulfilled"

\* every engine field but the calls and the microtask queue
engineData ==
  <<audioContext, gainNode, soundBuffers, currentSourceNode, isPlaying,
    selectedSound, isLoading, preloadPromise, volume, nodes, batches,
    ctxCount, gainCount>>

\* the loadSound call id has returned the buffer the cache held for its name,
\* without a fetch or a decode
HitReturned(id) ==
  /\ calls'[id].fn = "loadSound"
  /\ calls'[id].st = "fulfilled" /\ calls'[id].pc = "done"
  /\ calls'[id].result = soundBuffers[calls'[id].arg]

\* C11: loadSound(name) for a name whose buffer is in the cache returns that
\* buffer, does no fetch and no decode and leaves the cache and isLoading (and
\* every other field of the engine) unchanged; this holds when the cache is
\* consulted at once and when it is consulted after the call awaited init.
C11_LoadSoundCacheHit ==
  /\ [][ev'.op = "loadSound" /\ soundBuffers[ev'.name] # 0
          => /\ Len(calls') = Len(calls) + 1 /\ ev'.id = Len(calls')
             /\ HitReturned(ev'.id)
             /\ UNCHANGED engineData /\ mq' = mq]_vars
  /\ [][( /\ ev'.op = "resume_loadSound" /\ calls[ev'.id].pc = "awaitInit"
           /\ calls[calls[ev'.id].child].st = "fulfilled"
           /\ soundBuffers[ev'.name] # 0 )
          => /\ HitReturned(ev'.id)
             /\ UNCHANGED engineData]_vars
  /\ [][\A id \in (Len(calls) + 1)..Len(calls') :
          calls'[id].fn = "loadSound" /\ soundBuffers[calls'[id].arg] # 0
            => HitReturned(id) /\ soundBuffers' = soundBuffers]_vars

\* a direct loadSound call has hit the cache while another load was in flight
C11_Witness ==
  /\ ev.op = "loadSound" /\ ev.id \in CallIds
  /\ calls[ev.id].st = "fulfilled" /\ calls[ev.id].result # 0
  /\ calls[ev.id].result = soundBuffers[ev.name]
  /\ calls[ev.id].result # ev.id
  /\ \E id \in CallIds : calls[id].pc \in {"fetch", "decode"}

\* C12 as stated: after a loadSound(name) whose fetch or decode failed, the
\* cache has no entry for name.
C12_FailedLoadLeavesNoEntry ==
  ev.op \in {"fetch", "decode"} /\ ev.v = 0
    => calls[ev.id].st = "rejected" /\ soundBuffers[ev.name] = 0

\* C12, amended: a loadSound whose fetch or decode fails rejects and writes
\* nothing to the cache, which is left as it was; every cache entry was
\* written by a loadSound of that name whose decode succeeded. (Another load
\* of the same name that succeeded may have left an entry.)
C12_FailedLoadWritesNothing ==
  /\ [][ev'.op \in {"fetch", "decode"} /\ ev'.v = 0
          => /\ calls[ev'.id].st = "pending"
             /\ calls'[ev'.id].st = "rejected"
             /\ soundBuffers' = soundBuffers]_vars
  /\ [](\A name \in Names :
          soundBuffers[name] # 0
            => LET id == soundBuffers[name]
               IN /\ id \in CallIds /\ calls[id].fn = "loadSound"
                  /\ calls[id].arg = name /\ calls[id].st = "fulfilled"
                  /\ calls[id].result = id)
  /\ [](\A id \in CallIds :
          ( /\ calls[id].fn = "loadSound" /\ calls[id].st = "rejected"
            /\ \A other \in CallIds \ {id} :
                  calls[other].fn = "loadSound" => calls[other].arg # calls[id].arg )
          => soundBuffers[calls[id].arg] = 0)

\* a decode has failed: the call is rejected and its name has no entry, while
\* the other catalog entry is cached
C12_Witness ==
  /\ ev.op = "decode" /\ ev.v = 0
  /\ calls[ev.id].st = "rejected"
  /\ soundBuffers[ev.name] = 0
  /\ \E name \in soundSources : soundBuffers[name] # 0

\* the play call id returns (or rejects) in this step
PlaySettles(id) ==
  /\ id \in 1..Len(calls')
  /\ calls'[id].fn = "play" /\ calls'[id].st # "pending"
  /\ id > Len(calls) \/ calls[id].st = "pending"

\* the name of play call id is neither cached nor in the catalog
PlayOfUnknown(id) ==
  calls'[id].arg \notin soundSources /\ soundBuffers[calls'[id].arg] = 0

\* the on-demand load that play call id awaited has failed
PlayLoadFailed(id) ==
  /\ id \in CallIds /\ calls[id].pc = "awaitLoad"
  /\ calls[calls[id].child].st = "rejected"

\* the steps of a play call that has not returned change nothing of playback
PlayPendingChangesNothing ==
  \A id \in 1..Len(calls') :
    ( /\ calls'[id].fn = "play" /\ calls'[id].st = "pending"
      /\ ev'.id = id /\ ev'.op \in {"play", "resume", "resume_play"} )
    => UNCHANGED <<isPlaying, selectedSound, currentSourceNode, nodes>>

\* C13: a play(name) whose name is neither cached nor in the catalog, or whose
\* on-demand load fails, returns without rejecting, starts no voice and leaves
\* isPlaying, selectedSound and the current voice as they were.
C13_FailedPlayChangesNothing ==
  [][/\ PlayPendingChangesNothing
     /\ \A id \in 1..Len(calls') :
          PlaySettles(id) /\ (PlayOfUnknown(id) \/ PlayLoadFailed(id))
            => /\ calls'[id].st = "fulfilled"
               /\ UNCHANGED <<isPlaying, selectedSound, currentSourceNode, nodes>>]_vars

\* the same for the play calls that reach the lookup of the buffer (lines
\* 121-136): those whose own init() did not reject
C13_FailedLookupChangesNothing ==
  [][/\ PlayPendingChangesNothing
     /\ \A id \in 1..Len(calls') :
          ( /\ PlaySettles(id) /\ (PlayOfUnknown(id) \/ PlayLoadFailed(id))
            /\ ~(id \in CallIds /\ calls[id].pc = "awaitInit"
                   /\ AwaitedRejected(State, calls[id])) )
            => /\ calls'[id].st = "fulfilled"
               /\ UNCHANGED <<isPlaying, selectedSound, currentSourceNode, nodes>>]_vars

\* an on-demand load failed while another sound was playing, which plays on
C13_LookupWitness ==
  /\ ev.op = "resume_play" /\ calls[ev.id].st = "fulfilled"
  /\ calls[ev.id].child # 0 /\ calls[calls[ev.id].child].fn = "loadSound"
  /\ calls[calls[ev.id].child].st = "rejected"
  /\ isPlaying /\ selectedSound # calls[ev.id].arg

\* C14: a play(name) called on an uninitialized engine whose audio context
\* cannot be constructed returns without rejecting, starts no voice and leaves
\* isPlaying false.
C14_PlayFailsSilently ==
  [][\A id \in CallIds :
       ( /\ PlaySettles(id) /\ calls[id].pc = "awaitInit"
         /\ calls[calls[id].child].st = "rejected"
         /\ ctxCount = 0 )
       => /\ calls'[id].st = "fulfilled"
          /\ nodes' = nodes
          /\ ~isPlaying']_vars

\* what the code does instead: the play call rejects; no voice, isPlaying false
C14_PlayRejects ==
  [][\A id \in CallIds :
       ( /\ PlaySettles(id) /\ calls[id].pc = "awaitInit"
         /\ calls[calls[id].child].st = "rejected" )
       => /\ calls'[id].st = "rejected"
          /\ nodes' = nodes
          /\ isPlaying' = isPlaying]_vars

\* the id of a play call issued right after a first init() call, which makes
\* one preloadAllSounds call and one loadSound call per catalog entry
PlayAfterInit ==
  NumSounds + 3

\* on a fresh engine init() was called and awaited, then play('Rain') was
\* called and awaited; all loads succeeded and nothing else was called
InitThenPlayRain ==
  /\ budget = [user |-> 2, sync |-> 0, fail |-> 0]
  /\ Len(calls) >= PlayAfterInit
  /\ calls[1].fn = "init"
  /\ calls[PlayAfterInit].fn = "play" /\ calls[PlayAfterInit].arg = "Rain"
  /\ calls[PlayAfterInit].at.via = "play"
  /\ calls[PlayAfterInit].at.pending = {}
  /\ calls[PlayAfterInit].st # "pending"

\* C15: on a fresh engine with all loads succeeding, init() then play('Rain'),
\* each awaited, leave getState() equal to {isPlaying: true, currentSound:
\* 'Rain', volume: 0.75, isLoading: false}.
C15_EndToEnd ==
  InitThenPlayRain
    => /\ calls[1].st = "fulfilled" /\ calls[PlayAfterInit].st = "fulfilled"
       /\ getState(State) = [isPlaying |-> TRUE, currentSound |-> "Rain",
                             volume |-> DefaultVolume, isLoading |-> FALSE]

C15_Witness ==
  /\ InitThenPlayRain
  /\ getState(State).isPlaying /\ getState(State).currentSound = "Rain"
  /\ \A name \in soundSources : soundBuffers[name] # 0
  /\ currentSourceNode = 1 /\ nodes[1].buffer = soundBuffers["Rain"]

\* ------------------------------------------------ claims, settings store
\* this step constructs a settings store
StoreConstructed ==
  instances' = instances + 1
\* this step is a set(sev'.key, sev'.value) call
StoreSetCalled ==
  sev'.op \in {"set", "set_write_throws"} /\ storeOps' = storeOps + 1

\* C16: constructing the store when the stored item is absent, is not
\* parsable, or cannot be read yields exactly the defaults, and no error
\* escapes.
C16_LoadFailureYieldsDefaults ==
  [][( /\ StoreConstructed
       /\ \/ sev'.op = "new_read_throws"
          \/ localStorage.kind \in {"absent", "empty", "text"} )
     => /\ settings' = DEFAULTS
        /\ ~sev'.escaped]_vars

\* a valid record is stored, but reading it threw: the store holds the defaults
C16_Witness ==
  /\ sev.op = "new_read_throws" /\ instances = 1
  /\ localStorage.kind = "json" /\ "volume" \in DOMAIN localStorage.obj
  /\ localStorage.obj["volume"] = Num(50)
  /\ settings = DEFAULTS

\* a number in [0,1]
ValidVolume(v) ==
  v.t = "number" /\ v.n >= 0 /\ v.n <= 100
\* a non-empty string
ValidSound(v) ==
  v.t = "string" /\ v.s # ""
\* set(key, value) is a write of an invalid value to a constrained key
InvalidWrite(key, value) ==
  \/ key = "volume" /\ ~ValidVolume(value)
  \/ key = "selectedSound" /\ ~ValidSound(value)

\* C17: set('volume', v) with v not a number in [0,1] and set('selectedSound',
\* s) with s not a non-empty string leave the record unchanged and write
\* nothing to storage; a valid value for either key is stored in the record
\* and written to storage in the same call.
C17_SetValidates ==
  [][StoreSetCalled /\ sev'.key \in {"volume", "selectedSound"}
       => IF InvalidWrite(sev'.key, sev'.value)
            THEN /\ settings' = settings
                 /\ setItemCalls' = setItemCalls
                 /\ localStorage' = localStorage
            ELSE /\ settings' = Assign(settings, sev'.key, sev'.value)
                 /\ setItemCalls' = setItemCalls + 1
                 /\ sev'.op = "set" => localStorage' = Stringify(settings')]_vars

\* the same, NaN apart: every value but NaN is validated as stated
C17_SetValidatesButNaN ==
  [][StoreSetCalled /\ sev'.key \in {"volume", "selectedSound"}
       /\ ~(sev'.key = "volume" /\ sev'.value = NaN)
       => IF InvalidWrite(sev'.key, sev'.value)
            THEN /\ settings' = settings
                 /\ setItemCalls' = setItemCalls
                 /\ localStorage' = localStorage
            ELSE /\ settings' = Assign(settings, sev'.key, sev'.value)
                 /\ setItemCalls' = setItemCalls + 1
                 /\ sev'.op = "set" => localStorage' = Stringify(settings')]_vars

\* what the code does with NaN: it is stored as the volume, and written
C17_NaNAccepted ==
  [][StoreSetCalled /\ sev'.key = "volume" /\ sev'.value = NaN
       => /\ settings'["volume"] = NaN
          /\ setItemCalls' = setItemCalls + 1]_vars

\* C18: set(key, value) with a key that is not a key of the defaults never
\* changes the record and never writes to storage, whatever item was loaded.
C18_UnknownKeyRejected ==
  [][StoreSetCalled /\ sev'.key \notin DOMAIN DEFAULTS
       => /\ settings' = settings
          /\ setItemCalls' = setItemCalls
          /\ localStorage' = localStorage]_vars

\* the same for a key that is neither in the loaded record nor inherited from
\* Object.prototype
C18_AbsentKeyRejected ==
  [][StoreSetCalled /\ ~KeyIn(sev'.key, settings)
       => /\ settings' = settings
          /\ setItemCalls' = setItemCalls
          /\ localStorage' = localStorage]_vars

\* what the code does with a key that the stored record brought in: the write
\* is accepted
C18_PersistedKeyAccepted ==
  [][StoreSetCalled /\ sev'.key = "theme" /\ "theme" \in DOMAIN settings
       => /\ settings'["theme"] = sev'.value
          /\ setItemCalls' = setItemCalls + 1]_vars

\* a key that only the stored record brought in was overwritten by set
C18_PersistedKeyWitness ==
  /\ sev.op = "set" /\ sev.key = "theme" /\ setItemCalls = 1
  /\ settings["theme"] = sev.value
  /\ localStorage = Stringify(settings)

\* C19: after loading a parsable stored record, the store's record has every
\* default key; each key of the stored record has the stored value and each
\* default key missing from it has its default value.
C19_LoadMergesOntoDefaults ==
  [][StoreConstructed /\ sev'.op = "new" /\ localStorage.kind = "json"
       => /\ DOMAIN DEFAULTS \subseteq DOMAIN settings'
          /\ DOMAIN settings' = DOMAIN DEFAULTS \cup DOMAIN localStorage.obj
          /\ \A k \in DOMAIN localStorage.obj : settings'[k] = localStorage.obj[k]
          /\ \A k \in DOMAIN DEFAULTS \ DOMAIN localStorage.obj :
               settings'[k] = DEFAULTS[k]
          /\ ~sev'.escaped]_vars

\* a stored record with a volume and a key the defaults do not have was loaded
C19_Witness ==
  /\ sev.op = "new" /\ instances = 1 /\ localStorage.kind = "json"
  /\ DOMAIN localStorage.obj = {"volume", "theme"}
  /\ settings["volume"] = localStorage.obj["volume"]
  /\ settings["volume"] # DEFAULTS["volume"]
  /\ settings["theme"] = localStorage.obj["theme"]
  /\ settings["selectedSound"] = DEFAULTS["selectedSound"]

\* C20: when the storage write throws during set or incrementSessionCount, the
\* call returns normally and the record holds the newly written value.
C20_WriteFailureTolerated ==
  /\ [][StoreSetCalled /\ sev'.op = "set_write_throws"
          /\ setItemCalls' # setItemCalls
          => /\ ~sev'.escaped
             /\ settings'[sev'.key] = sev'.value
             /\ get([Store EXCEPT !.settings = settings'], sev'.key) = sev'.value]_vars
  /\ [][sev'.op = "increment_write_throws"
          => /\ ~sev'.escaped
             /\ setItemCalls' = setItemCalls + 2
             /\ settings'["lastUsed"] = NowISO
             /\ settings'["sessionCount"] =
                  (IF Truthy(settings["sessionCount"])
                     THEN PlusOne(settings["sessionCount"]) ELSE Num(100))]_vars

\* a valid volume was set while the write threw: the record has it, storage
\* does not
C20_Witness ==
  /\ sev.op = "set_write_throws" /\ sev.key = "volume" /\ sev.value = Num(20)
  /\ settings["volume"] = Num(20)
  /\ setItemCalls = 1
  /\ localStorage # Stringify(settings)

\* ------------------------------------------------ colour cycler claims
\* C21: with more than one palette entry the last two cycle paints never
\* used the same palette index, whatever calls and timer runs came before;
\* with exactly one entry every cycle painted that entry, so the surface
\* shows nothing else.
C21_NoRepeatedCycleColour ==
  /\ ( /\ Len(background.palettes) > 1
       /\ bgHist.paints[1] # -1 )
     => bgHist.paints[1] # bgHist.paints[2]
  /\ Len(background.palettes) = 1
     => /\ bgHist.paints[2] \in {-1, 0}
        /\ bgHist.paints[2] = 0
           => background.backgroundColor = background.palettes[1].color

\* a timer has run a second cycle on a palette of several entries
C21_Witness ==
  /\ Len(background.palettes) > 1
  /\ bev.op = "timer"
  /\ bgHist.paints[1] # -1

\* a timer has run a second cycle on a palette of one entry
C21_SingleEntryReached ==
  /\ Len(background.palettes) = 1
  /\ bev.op = "timer"
  /\ bgHist.paints = <<0, 0>>

\* a timer callback runs: the only step that installs a timer without a call
CycleCallbackRuns ==
  bgOps' = bgOps /\ timerSeq' # timerSeq

\* the step is a call of the named method
BgCalled(op) ==
  bgOps' # bgOps /\ bev'.op = op

\* C22: after stop() no cycle callback runs and the painted colour stays
\* as it is until the next start(), setReducedMotion(false) or setSpeed
\* call, whatever calls came before the stop.
C22_StopSilencesCycling ==
  [][ bgHist.quiet = "stop"
      => /\ ~CycleCallbackRuns
         /\ bgOps' = bgOps
            => background'.backgroundColor = background.backgroundColor ]_vars

\* what stop() does: it clears the timer whose handle is in timeoutId, and
\* no other
C22_StopClearsRecordedTimer ==
  [][ BgCalled("stop")
      => /\ background'.timeoutId = NoTimer
         /\ timers' = { t \in timers : t.id # background.timeoutId } ]_vars

\* C23: after setReducedMotion(true) the surface shows the static entry
\* (the first palette entry, or the fallback colour of an empty palette)
\* for as long as no start, setReducedMotion(false) or accepted setSpeed
\* follows, whatever calls came before.
C23_ReducedMotionIsStatic ==
  bgHist.quiet = "static"
  => background.backgroundColor = StaticEntry(background).color

\* what setReducedMotion(true) does: it paints the static entry and clears
\* the timer whose handle is in timeoutId, and no other
C23_StaticPaintedOnCall ==
  [][ (BgCalled("setReducedMotion") /\ bev'.arg = 1)
      => /\ background'.backgroundColor = StaticEntry(background).color
         /\ background'.timeoutId = NoTimer
         /\ timers' = { t \in timers : t.id # background.timeoutId } ]_vars

\* C24: setSpeed(factor) with factor <= 0 changes nothing: the controller
\* (its transition duration, its timer handle, the painted colour) and the
\* pending timers are as before the call.
C24_NonPositiveSpeedIgnored ==
  [][ (BgCalled("setSpeed") /\ bev'.arg <= 0)
      => UNCHANGED <<background, timers, timerSeq>> ]_vars

\* a non-positive factor was passed while a cycle timer was pending and the
\* duration was not the base one
C24_Witness ==
  /\ bev.op = "setSpeed"
  /\ bev.arg <= 0
  /\ background.timeoutId # NoTimer
  /\ \E t \in timers : t.id = background.timeoutId
  /\ background.transitionDuration # baseTransitionDuration

\* no cycle was asked for: never started, stopped, or static
NoCycleInFlight ==
  bgHist.mode \in {"idle", "stopped", "static"}

\* C25: setSpeed(factor) with factor > 0, called while no cycle is in
\* flight, only updates the transition duration: no timer is scheduled and
\* nothing else of the controller changes.
C25_IdleSetSpeedOnlySetsDuration ==
  [][ (BgCalled("setSpeed") /\ bev'.arg > 0 /\ NoCycleInFlight)
      => /\ timers' = timers
         /\ background' =
              [background EXCEPT
                 !.transitionDuration = Quot(baseTransitionDuration, bev'.arg)]
    ]_vars

\* what the call does instead: it sets the duration and installs a cycle
\* timer, whose handle it keeps
C25_IdleSetSpeedStartsCycling ==
  [][ (BgCalled("setSpeed") /\ bev'.arg > 0 /\ NoCycleInFlight)
      => /\ background'.transitionDuration
              = Quot(baseTransitionDuration, bev'.arg)
         /\ background'.timeoutId = timerSeq'
         /\ \E t \in timers' : /\ t.id = timerSeq'
                               /\ t \notin timers
                               /\ t.due <= now + background'.transitionDuration
    ]_vars

C26_LaterCycleReached ==
  /\ bev.op = "timer"
  /\ bgHist.mode = "cycling"
  /\ background.transitionDuration # baseTransitionDuration

\* C27: in every reachable state at most one cycle timer is pending, so
\* there are never two concurrent cycle chains.
C27_AtMostOneCycleTimer ==
  Cardinality({ t \in timers : t.cb = "cycleColor" }) <= 1

\* ------------------------------------------------ controls and banner claims
HideTimers ==
  { t \in timers : t.cb = "hideControls" }

\* the step is the named event or call
UiCalled(ops) ==
  uiOps' # uiOps /\ uev'.op \in ops

\* C28: after initControlHiding(d) with d > 0, (1) the controls are
\* hidden once d has passed since the last event or call, while neither
\* focus nor pointer is inside them, (2) a pointer or keyboard event shows
\* them at once, (3) they are hidden no sooner than d after the most
\* recent event that showed them, (4) at most one hide timer is pending.
C28_ControlsAutoHide ==
  /\ [] ( ( /\ ui.listeners > 0
            /\ ui.inactivityDuration > 0
            /\ ~uiHist.focused /\ ~uiHist.hovering
            /\ now >= uiHist.eventAt + ui.inactivityDuration
            /\ DueTimers = {} )
          => ui.hidden )
  /\ [][ UiCalled(ActivityEvents) => ~ui'.hidden ]_vars
  /\ [][ (ui'.hidden /\ ~ui.hidden)
         => /\ ui.inactivityDuration > 0
            /\ now >= uiHist.eventAt + ui.inactivityDuration
            /\ uiHist.activityAt # Undefined
               => now >= uiHist.activityAt + ui.inactivityDuration ]_vars
  /\ [] (Cardinality(HideTimers) <= 1)

\* the controls were hidden by their timer exactly d after a pointer or
\* keyboard event had shown them
C28_Witness ==
  /\ ui.hidden
  /\ uev.op = "hideControls"
  /\ uiHist.activityAt # Undefined
  /\ uiHist.eventAt = uiHist.activityAt
  /\ now = uiHist.activityAt + ui.inactivityDuration

\* C29: from a focusin on the controls until the next focusout the
\* controls are never hidden, whatever other events and time come between.
C29_FocusedControlsStayVisible ==
  uiHist.focused => ~ui.hidden

\* what focusin does: it shows the controls and leaves no hide timer pending
C29_FocusInClearsTimer ==
  [][ UiCalled({"focusin"}) => (~ui'.hidden /\ HideTimers' = {}) ]_vars

FadeTimers ==
  { t \in timers : t.cb = "errorFade" }

\* C30: after every displayError call the banner stays visible for the
\* full delay counted from that call, and at most one fade timer is pending.
C30_BannerShownForFullDelay ==
  /\ ( /\ uiHist.errorAt # Undefined
       /\ now < uiHist.errorAt + ErrorDelay )
     => ui.opacity = "1"
  /\ Cardinality(FadeTimers) <= 1

\* what displayError does: it shows the message and adds a fade timer for
\* the full delay, leaving every earlier fade timer pending
C30_DisplayErrorAddsTimer ==
  [][ UiCalled({"displayError"})
      => /\ ui'.textContent = uev'.arg
         /\ ui'.opacity = "1"
         /\ timers' = timers \cup {[id |-> timerSeq', due |-> now + ErrorDelay,
                                    cb |-> "errorFade"]}
         /\ timerSeq' = timerSeq + 1 ]_vars

\* ------------------------------------------------ further engine claims
\* C32: whenever the gain stage exists its value is the stored volume; a
\* volume set before init is the value the stage gets when init creates it.
C32_GainFollowsVolume ==
  gainNode.exists => gainNode.value = volume

\* the first call was an init that created the gain stage after a
\* setVolume had changed the stored volume
C32_Witness ==
  /\ ev.op = "init" /\ ev.id = 1
  /\ gainNode.exists
  /\ volume # DefaultVolume
  /\ gainNode.value = volume

\* a loadSound call of this name is between its fetch and its cache write
LoadInFlight(name) ==
  \E id \in CallIds : /\ calls[id].fn = "loadSound" /\ calls[id].arg = name
                      /\ calls[id].pc \in {"fetch", "decode"}

\* C33: concurrent loads of one name are not deduplicated: a loadSound of a
\* name that has no cache entry starts its own fetch although another load
\* of that name is in flight, and every load whose decode succeeds writes
\* the cache entry of its name and returns its own buffer.
C33_ConcurrentLoadsNotDeduplicated ==
  /\ [][\A id \in (Len(calls) + 1)..Len(calls') :
          ( /\ calls'[id].fn = "loadSound"
            /\ audioContext # 0
            /\ soundBuffers[calls'[id].arg] = 0
            /\ LoadInFlight(calls'[id].arg) )
          => /\ calls'[id].pc = "fetch"
             /\ calls'[id].st = "pending"
             /\ calls'[id].child = 0 ]_vars
  /\ [][(ev'.op = "decode" /\ ev'.v = 1)
          => /\ soundBuffers'[ev'.name] = ev'.id
             /\ calls'[ev'.id].result = ev'.id]_vars

\* two loads of one name overlapped and each decoded and wrote the entry
C33_Witness ==
  /\ ev.op = "decode" /\ ev.v = 1
  /\ soundBuffers[ev.name] = ev.id
  /\ \E other \in CallIds \ {ev.id} :
       /\ calls[other].fn = "loadSound" /\ calls[other].arg = ev.name
       /\ calls[other].st = "fulfilled" /\ calls[other].result = other

\* an init call has not settled yet
InitInFlight ==
  \E id \in CallIds : calls[id].fn = "init" /\ calls[id].st = "pending"

\* C35: over any interleaving of init, preloadAllSounds, loadSound and play
\* calls the audio context and the gain stage are constructed at most once
\* each, and exactly once each when no construction has failed; a call
\* issued while an init is in flight constructs nothing.
C35_ConstructedOnce ==
  /\ [] ( /\ ctxCount <= 1 /\ gainCount <= 1
          /\ (calls # <<>> /\ budget.fail = 0)
             => (ctxCount = 1 /\ gainCount = 1) )
  /\ [][ (Len(calls') > Len(calls) /\ InitInFlight)
         => UNCHANGED <<audioContext, gainNode, ctxCount, gainCount>> ]_vars

\* a play was issued while the first init was still in flight and made no
\* init call of its own
C35_Witness ==
  /\ calls # <<>>
  /\ calls[1].fn = "init" /\ calls[1].st = "pending"
  /\ ev.op = "play" /\ ev.id = Len(calls)
  /\ \A id \in CallIds : id > 1 => calls[id].fn # "init"
  /\ ctxCount = 1 /\ gainCount = 1

\* at least one loadSound call is between its fetch and its cache write
SomeLoadInFlight ==
  \E id \in CallIds : /\ calls[id].fn = "loadSound"
                      /\ calls[id].pc \in {"fetch", "decode"}

\* C36: getState().isLoading is true in every state in which a loadSound
\* fetch or decode is in flight and false in every state in which none is.
C36_IsLoadingTracksLoads ==
  getState(State).isLoading <=> SomeLoadInFlight

\* what holds of the flag: with no load in flight it is down
C36_IdleMeansNotLoading ==
  ~SomeLoadInFlight => ~getState(State).isLoading

\* the play calls made so far
PlayCalls ==
  {id \in CallIds : calls[id].fn = "play"}

\* play call b was issued while play call a, for another sound, had not
\* settled; both have settled since and nothing else has intervened
OverlappedPlaysSettled(a, b) ==
  /\ a < b
  /\ calls[a].arg # calls[b].arg
  /\ a \in calls[b].at.pending
  /\ calls[a].st = "fulfilled" /\ calls[b].st = "fulfilled"
  /\ budget.sync = 0 /\ budget.fail = 0

\* C37: when two play calls for different catalog sounds overlap, then once
\* both have settled the playing voice and selectedSound are those of the
\* later-issued call.
C37_LaterPlayWins ==
  \A a, b \in PlayCalls :
    OverlappedPlaysSettled(a, b)
    => /\ selectedSound = calls[b].arg
       /\ isPlaying
       /\ currentSourceNode # 0
       /\ nodes[currentSourceNode].by = b

\* what holds: after two overlapped plays a voice is playing, and it is the
\* voice of the call whose continuation ran last
C37_LastContinuationWins ==
  \A a, b \in PlayCalls :
    OverlappedPlaysSettled(a, b)
    => /\ isPlaying
       /\ currentSourceNode # 0
       /\ nodes[currentSourceNode].by \in {a, b}
       /\ selectedSound = calls[nodes[currentSourceNode].by].arg

\* C38: if pause() or stop() is called while a play() call is suspended, then
\* once that play call has settled the engine is not playing and holds no
\* live voice.  (In PauseRaceSpec pause and stop are called only while the
\* play call is suspended, so budget.sync counts exactly those calls; the
\* runs in which a construction, fetch or decode failed are left aside.)
C38_PauseBeatsSuspendedPlay ==
  \A a \in PlayCalls :
    (calls[a].st # "pending" /\ budget.sync >= 1 /\ budget.fail = 0)
    => (~isPlaying /\ currentSourceNode = 0)

\* what holds: right after the pause or stop call itself nothing is playing
C38_PauseSilencesAtOnce ==
  ev.op \in {"pause", "stop"} => (~isPlaying /\ currentSourceNode = 0)

\* ------------------------------------------------ further store claims
\* v is a number between 0 and 1 (values are held in hundredths)
IsUnitNumber(v) ==
  v.t = "number" /\ v.n >= VolumeMin /\ v.n <= VolumeMax

\* C40: in every reachable state of a constructed store, whatever blob was
\* persisted and whatever set calls were made, get('volume') is a number in
\* [0,1] and get('selectedSound') is a non-empty string.
C40_StoredSettingsValid ==
  instances > 0
  => /\ IsUnitNumber(get(Store, "volume"))
     /\ get(Store, "selectedSound").t = "string"
     /\ get(Store, "selectedSound").s # ""

\* what holds: set never puts an empty or non-string selectedSound, or a
\* number outside [0,1], into the store
C40_SetKeepsRangeAndName ==
  [][StoreSetCalled
     => /\ (settings'.selectedSound # settings.selectedSound)
           => (settings'.selectedSound.t = "string" /\ settings'.selectedSound.s # "")
        /\ (settings'.volume # settings.volume)
           => (settings'.volume.t = "NaN" \/ IsUnitNumber(settings'.volume))]_vars

\* ------------------------------------------------ sound selector claims
\* C34: the trigger's aria-expanded is 'true' exactly when the options list
\* carries the 'open' class, at most one option is marked focused, at most
\* one option is marked selected, and no option is marked focused while the
\* dropdown is closed.
C34_DropdownMarksConsistent ==
  /\ dropdown.expanded <=> dropdown.open
  /\ Cardinality(dropdown.focused) <= 1
  /\ Cardinality(dropdown.selected) <= 1
  /\ ~dropdown.open => dropdown.focused = {}

\* an arrow key has moved the focus mark off the selected option of an open
\* list
C34_Witness ==
  /\ dev.op = "keydown" /\ dev.arg \in {"ArrowDown", "ArrowUp"}
  /\ dropdown.expanded /\ dropdown.open
  /\ Cardinality(dropdown.focused) = 1
  /\ Cardinality(dropdown.selected) = 1
  /\ dropdown.focused # dropdown.selected

\* a click on an option has closed the list it was chosen from
C34_ClosedAfterChoice ==
  /\ dev.op = "optionClick"
  /\ ~dropdown.expanded /\ ~dropdown.open
  /\ dropdown.focused = {}
  /\ Cardinality(dropdown.selected) = 1

\* C39: with the dropdown closed and a callback bound, an Enter keydown on
\* the selector opens the dropdown, which stays open, and does not invoke the
\* sound-change callback.
C39_EnterOpensWithoutSelecting ==
  [][( /\ dev'.op = "keydown" /\ dev'.arg = "Enter" /\ ddOps' = ddOps + 1
       /\ ~dropdown.expanded
       /\ dropdown.onSoundChangeCallback )
     => /\ dropdown'.expanded /\ dropdown'.open
        /\ dropdown'.notified = dropdown.notified]_vars

\* what holds: Space, which the listener of bindSoundSelect ignores, opens
\* the closed dropdown and invokes nothing
C39_SpaceOpensWithoutSelecting ==
  [][( /\ dev'.op = "keydown" /\ dev'.arg = " " /\ ddOps' = ddOps + 1
       /\ ~dropdown.expanded )
     => /\ dropdown'.expanded /\ dropdown'.open
        /\ dropdown'.notified = dropdown.notified]_vars

\* ------------------------------------------------ play/pause control claims
HandlerCalls ==
  { id \in CallIds : calls[id].fn = "handlePlayPause" }

\* every handler call and everything it started has settled, and nothing
\* failed on the way
ActivationsSettled ==
  /\ HandlerCalls # {}
  /\ \A id \in CallIds : calls[id].st # "pending"
  /\ mq = <<>>
  /\ budget.fail = 0

\* C31: every activation of the play/pause control toggles playback: after
\* an odd number of activations the engine is playing and the button shows
\* 'pause', after an even number it is paused and the button shows 'play'.
C31_ActivationToggles ==
  ActivationsSettled
  => /\ isPlaying <=> (Cardinality(HandlerCalls) % 2 = 1)
     /\ app.playButton = (IF isPlaying THEN "pause" ELSE "play_arrow")

\* what holds: an activation initialises the engine and then fails; no play
\* call is ever made and the button keeps its 'play' icon
C31_ActivationNeverPlays ==
  /\ \A id \in CallIds : calls[id].fn # "play"
  /\ ~isPlaying
  /\ app.playButton = "play_arrow"
  /\ \A h \in HandlerCalls : calls[h].st = "fulfilled" => budget.fail > 0
  /\ ActivationsSettled => audioContext # 0

LiveResume ==
  budget.user < MaxLiveCalls /\ DoResume

\* play, preloadAllSounds, resume and pause calls only; resume may be called
\* once more than the others
LiveNext ==
  \/ UserPlay
  \/ UserPreloadAllSounds
  \/ LiveResume
  \/ UserPause
  \/ RunMicrotask
  \/ FetchDone
  \/ DecodeDone

StartupInit ==
  budget.user < MaxStartupCalls /\ DoInit
StartupPreloadAllSounds ==
  budget.user < MaxStartupCalls /\ DoPreloadAllSounds
StartupPlay ==
  budget.user < MaxStartupCalls /\ DoPlay

\* init, preloadAllSounds and play calls only
StartupNext ==
  \/ StartupInit
  \/ StartupPreloadAllSounds
  \/ StartupPlay
  \/ RunMicrotask
  \/ FetchDone
  \/ DecodeDone

StartupSpec ==
  Init /\ [][StartupNext]_vars

\* some play call has not settled
PlaySuspended ==
  \E id \in CallIds : calls[id].fn = "play" /\ calls[id].st = "pending"

RaceInit ==
  calls = <<>> /\ DoInit
RacePlay ==
  (\A id \in CallIds : calls[id].fn # "play") /\ DoPlay
RacePause ==
  PlaySuspended /\ UserPause
RaceStop ==
  PlaySuspended /\ UserStop

\* at most one init call, then one play call, and pause or stop calls while
\* that play call is suspended
PauseRaceNext ==
  \/ RaceInit
  \/ RacePlay
  \/ RacePause
  \/ RaceStop
  \/ RunMicrotask
  \/ FetchDone
  \/ DecodeDone

PauseRaceSpec ==
  Init /\ [][PauseRaceNext]_vars

\* fetches and decodes settle, and queued microtasks run
LiveSpec ==
  /\ Init
  /\ [][LiveNext]_vars
  /\ WF_vars(RunMicrotask)
  /\ WF_vars(FetchDone)
  /\ WF_vars(DecodeDone)

====
